---- MODULE Spec2Model ----
(***************************************************************************)
(* Model of the Pokojowo compatibility matching engine                     *)
(* (pokojowo-fastapi/app/services/matching_service.py).                    *)
(*                                                                         *)
(* Representation.                                                         *)
(*  - An Optional[T] value is a sequence: <<>> is None, <<x>> is x.        *)
(*  - A float is an exact rational [n |-> numerator, d |-> denominator],   *)
(*    d > 0, in lowest terms.  round(x, 1) is Round1: the nearest tenth,   *)
(*    ties to even, returned as an integer number of tenths (597 = 59.7).  *)
(*  - A "HH:MM" string is the sequence of its ":"-separated integer        *)
(*    fields: <<7, 30>> is "07:30"; a sequence of another length is a      *)
(*    string that map(int, s.split(":")) cannot unpack into two values.    *)
(*  - A raised exception is a result record with raised = TRUE.            *)
(***************************************************************************)
EXTENDS Integers, Sequences, FiniteSets, TLC

VARIABLES
    engine,         \* "new" | "ready" | "rejected": MatchingService construction
    weightsArg,     \* the weights argument of __init__ (Optional table)
    weights,        \* self.weights
    user,           \* find_matches argument: the seeker
    candidates,     \* find_matches argument: the candidate list
    limit,          \* find_matches argument
    min_score,      \* find_matches argument
    pc,             \* "call" | "loop" | "done" | "raised" | "pair" | "scored"
    idx,            \* position of the for loop over candidates
    results,        \* find_matches local: the result entries built so far
    filtered_count, \* find_matches local
    deal_breaker_reasons, \* find_matches local: candidate id -> reason
    scoredIdx,      \* history: candidate positions handed to _calculate_compatibility
    rejectedIdx,    \* history: candidate positions excluded by a deal-breaker
    error,          \* the exception that left the call ("" when none)
    ret,            \* the value find_matches returned (<<>> until it returns)
    calc,           \* the value _calculate_compatibility returned for the pair (<<>> before)
    hashSeed,       \* the seed of the process's string hashes
    previous,       \* history: the call before this one, its inputs and result (<<>> if none)
    job,            \* a ScrapeJob: status, started_at, completed_at, error_message
    now,            \* the clock datetime.utcnow() reads
    likes,          \* the likes collection
    mutual_matches, \* the mutual_matches collection
    proc,           \* the two requests POST /likes/{user_id}: position and locals
    callers         \* the two users of the requests

matchingVars == <<engine, weightsArg, weights, user, candidates, limit, min_score, pc, idx,
                  results, filtered_count, deal_breaker_reasons, scoredIdx, rejectedIdx,
                  error, ret, calc, hashSeed, previous>>
jobVars == <<job, now>>
likeVars == <<likes, mutual_matches, proc, callers>>

vars == <<engine, weightsArg, weights, user, candidates, limit, min_score, pc, idx,
          results, filtered_count, deal_breaker_reasons, scoredIdx, rejectedIdx, error,
          ret, calc, hashSeed, previous, job, now, likes, mutual_matches, proc, callers>>

----------------------------------------------------------------------------
(* Optional values and Python truthiness *)

None == <<>>
Some(x) == <<x>>
IsSome(o) == o # <<>>
Val(o) == o[1]

\* bool(x) for an Optional[int] / Optional[float]: None and 0 are falsy
TruthyNum(o) == IsSome(o) /\ Val(o) # 0
\* bool(x) for an Optional[bool]
TruthyBool(o) == o = <<TRUE>>
\* x or default, for an Optional number
OrNum(o, default) == IF TruthyNum(o) THEN Val(o) ELSE default

\* F(v) with v evaluated once: a quantifier binds its variable to a value,
\* where an operator argument or a LET definition is evaluated at every use
Strict(v, F(_)) == CHOOSE y \in {F(x) : x \in {v}} : TRUE
Strict2(v, w, F(_, _)) == CHOOSE y \in {F(a, b) : a \in {v}, b \in {w}} : TRUE

Abs(x) == Strict(x, LAMBDA v : IF v < 0 THEN -v ELSE v)
Min2(a, b) == Strict2(a, b, LAMBDA x, y : IF x <= y THEN x ELSE y)
Max2(a, b) == Strict2(a, b, LAMBDA x, y : IF x >= y THEN x ELSE y)

RECURSIVE SumSeq(_)
SumSeqRec(s) == IF s = <<>> THEN 0 ELSE Head(s) + SumSeq(Tail(s))
SumSeq(s) == Strict(s, SumSeqRec)

SeqToSet(s) == {s[k] : k \in 1..Len(s)}

----------------------------------------------------------------------------
(* Exact rationals standing for the floats of the source *)

RECURSIVE Gcd(_, _)
GcdRec(a, b) == IF b = 0 THEN a ELSE Gcd(b, a % b)
Gcd(a, b) == Strict2(a, b, GcdRec)

FracOf(n, d) ==
    Strict(Gcd(Abs(n), d),
           LAMBDA g : IF n = 0 THEN [n |-> 0, d |-> 1] ELSE [n |-> n \div g, d |-> d \div g])
Frac(n, d) == Strict2(n, d, FracOf)

FInt(k) == [n |-> k, d |-> 1]
FAddOf(a, b) ==
    Strict(Gcd(a.d, b.d),
           LAMBDA g : Frac(a.n * (b.d \div g) + b.n * (a.d \div g), (a.d \div g) * b.d))
FAdd(a, b) == Strict2(a, b, FAddOf)
\* a * p/q for integers p > 0, q > 0
FScaleOf(a, p, q) ==
    Strict2(Gcd(Abs(a.n), q), Gcd(p, a.d),
            LAMBDA g1, g2 : Frac((a.n \div g1) * (p \div g2), (a.d \div g2) * (q \div g1)))
FScale(a, p, q) == Strict(a, LAMBDA x : FScaleOf(x, p, q))
FLt(a, b) == Strict2(a, b, LAMBDA x, y : x.n * y.d < y.n * x.d)
FLe(a, b) == Strict2(a, b, LAMBDA x, y : x.n * y.d <= y.n * x.d)
FGeInt(a, k) == Strict(a, LAMBDA x : x.n >= k * x.d)
FLtInt(a, k) == Strict(a, LAMBDA x : x.n < k * x.d)
FMin(a, b) == Strict2(a, b, LAMBDA x, y : IF x.n * y.d <= y.n * x.d THEN x ELSE y)
FMax(a, b) == Strict2(a, b, LAMBDA x, y : IF x.n * y.d <= y.n * x.d THEN y ELSE x)

RECURSIVE FSum(_)
FSumRec(s) == IF s = <<>> THEN FInt(0) ELSE FAdd(Head(s), FSum(Tail(s)))
FSum(s) == Strict(s, FSumRec)

\* round(x, 1) as a number of tenths: nearest, ties to even.  The scores are
\* exact rationals here; a Python float next to a tie (60.55) lies a little
\* to one side of it and is rounded to that side, so at an exact tie the
\* float result can be the neighbouring tenth.
Round1Of(a) ==
    LET q == 10 * a.n
        fl == q \div a.d
        r == q % a.d
    IN  IF 2 * r < a.d THEN fl
        ELSE IF 2 * r > a.d THEN fl + 1
        ELSE IF fl % 2 = 0 THEN fl ELSE fl + 1
Round1(a) == Strict(a, Round1Of)

\* the float a number of tenths stands for
Tenths(t) == Frac(t, 10)

\* sum(s * w for s, w in zip(scores, weights)) / sum(weights); zip stops at the
\* shorter list, sum(weights) takes the whole weight list
RECURSIVE ZipSum(_, _)
ZipSumRec(scores, ws) ==
    IF scores = <<>> \/ ws = <<>> THEN 0
    ELSE Head(scores) * Head(ws) + ZipSum(Tail(scores), Tail(ws))
ZipSum(scores, ws) == Strict2(scores, ws, ZipSumRec)

WeightedAverage(scores, ws) ==
    Strict2(scores, ws, LAMBDA s, w : Frac(ZipSum(s, w), SumSeq(w)))

Exp(category, reason, impact, score) ==
    [category |-> category, reason |-> reason, impact |-> impact, score |-> score]

----------------------------------------------------------------------------
(* Enumerations of app/models/user.py, in declaration order *)

CleanlinessEnum == <<"very_clean", "clean", "moderate", "relaxed", "messy">>
SocialLevelEnum == <<"very_social", "social", "moderate", "quiet", "very_quiet">>
GuestsFrequencyEnum == <<"often", "sometimes", "rarely", "never">>
NoiseToleranceEnum == <<"very_tolerant", "tolerant", "moderate", "sensitive", "very_sensitive">>
CookingFrequencyEnum == <<"daily", "often", "sometimes", "rarely", "never">>

\* list.index(v): the 1-based position, 0 when v is not in the list (ValueError)
IndexOf(s, v) == IF \E k \in 1..Len(s) : s[k] = v
                 THEN CHOOSE k \in 1..Len(s) : s[k] = v /\ \A j \in 1..(k-1) : s[j] # v
                 ELSE 0

----------------------------------------------------------------------------
(* Helper methods *)

TenantProfile(u) == u.tenant_profile
Preferences(u) == IF IsSome(u.tenant_profile) THEN Val(u.tenant_profile).preferences ELSE None

\* _get_budget: None, or the dict with min/max defaulted
GetBudget(u) ==
    IF IsSome(Preferences(u)) /\ IsSome(Val(Preferences(u)).budget)
    THEN LET budget == Val(Val(Preferences(u)).budget)
         IN  Some([min |-> OrNum(budget.min, 0),
                   max |-> OrNum(budget.max, 10000),
                   currency |-> budget.currency])
    ELSE None

\* _get_lifestyle_prefs: the dict {} is None, a filled dict is Some(record)
GetLifestylePrefs(u) ==
    IF IsSome(Preferences(u)) /\ IsSome(Val(Preferences(u)).lifestyle_preferences)
    THEN LET lp == Val(Val(Preferences(u)).lifestyle_preferences)
         IN  Some([smokes |-> lp.smokes, hasPets |-> lp.has_pets,
                   okWithSmoking |-> lp.ok_with_smoking, okWithPets |-> lp.ok_with_pets])
    ELSE None

\* _get_flatmate_traits: the dict {} is None, a filled dict is Some(record)
GetFlatmateTraits(u) ==
    IF IsSome(u.tenant_profile) /\ IsSome(Val(u.tenant_profile).flatmate_traits)
    THEN LET ft == Val(Val(u.tenant_profile).flatmate_traits)
         IN  Some([cleanliness |-> ft.cleanliness, socialLevel |-> ft.social_level,
                   guestsFrequency |-> ft.guests_frequency,
                   noiseTolerance |-> ft.noise_tolerance,
                   cookingFrequency |-> ft.cooking_frequency])
    ELSE None

\* dict.get(key, default) on the dicts above; default is an Optional value
DictGet(dict, key, default) == IF IsSome(dict) THEN Val(dict)[key] ELSE default

\* _get_personality
GetPersonality(u) ==
    IF IsSome(u.tenant_profile) THEN Val(u.tenant_profile).personality ELSE <<>>

\* _get_interests
GetInterests(u) ==
    IF IsSome(u.tenant_profile) THEN Val(u.tenant_profile).interests ELSE <<>>

\* _get_daily_routine: None, or the dict of the three entries
GetDailyRoutine(u) ==
    IF IsSome(u.tenant_profile) /\ IsSome(Val(u.tenant_profile).daily_routine)
    THEN LET dr == Val(Val(u.tenant_profile).daily_routine)
         IN  Some([wakeUp |-> dr.wake_up, sleepTime |-> dr.sleep_time,
                   workHours |-> IF IsSome(dr.work_hours)
                                 THEN Some([from |-> Val(dr.work_hours).from_time,
                                            to |-> Val(dr.work_hours).to])
                                 ELSE None])
    ELSE None

\* _calculate_range_overlap
CalculateRangeOverlap(min1In, max1In, min2In, max2In) ==
    LET min1 == IF min1In # 0 THEN min1In ELSE 0
        max1 == IF max1In # 0 THEN max1In ELSE 100000
        min2 == IF min2In # 0 THEN min2In ELSE 0
        max2 == IF max2In # 0 THEN max2In ELSE 100000
        overlap_start == Max2(min1, min2)
        overlap_end == Min2(max1, max2)
        overlap == overlap_end - overlap_start
        smaller_range == Min2(max1 - min1, max2 - min2)
    IN  IF overlap_start >= overlap_end THEN FInt(0)
        ELSE IF smaller_range <= 0 THEN FInt(1)
        ELSE FMin(FInt(1), Frac(overlap, smaller_range))

\* _score_enum_distance; val1, val2 are Optional strings
ScoreEnumDistance(val1, val2, enum_values) ==
    IF ~IsSome(val1) \/ ~IsSome(val2) THEN 50
    ELSE LET idx1 == IndexOf(enum_values, Val(val1))
             idx2 == IndexOf(enum_values, Val(val2))
             distance == Abs(idx1 - idx2)
         IN  IF idx1 = 0 \/ idx2 = 0 THEN 50
             ELSE IF Len(enum_values) - 1 = 0 THEN 100
             ELSE IF distance = 0 THEN 100
             ELSE IF distance = 1 THEN 80
             ELSE Max2(20, 100 - distance * 25)

\* _time_difference_hours, in minutes (the source divides by 60); None when the
\* string does not split into two integers
TimeDifferenceMinutes(time1, time2) ==
    IF Len(time1) # 2 \/ Len(time2) # 2 THEN None
    ELSE LET minutes1 == time1[1] * 60 + time1[2]
             minutes2 == time2[1] * 60 + time2[2]
             diff == Abs(minutes1 - minutes2)
         IN  Some(Min2(diff, 1440 - diff))

----------------------------------------------------------------------------
(* Lower-casing of the strings the profiles carry.  Python's str.lower() is    *)
(* given by its table on the strings of the model.                             *)

LowerTable ==
    [s \in {"English", "Polish", "polish", "german", "Hiking", "hiking", "chess",
            "Music", "music", "films", "Warsaw", "warsaw", "Radom", "Krakow",
            "Berlin", "Warsaw Mokotow", "Poland", "poland", "Germany"} |->
       CASE s = "English" -> "english"
         [] s = "Polish" -> "polish"
         [] s = "Hiking" -> "hiking"
         [] s = "Music" -> "music"
         [] s = "Warsaw" -> "warsaw"
         [] s = "Radom" -> "radom"
         [] s = "Krakow" -> "krakow"
         [] s = "Berlin" -> "berlin"
         [] s = "Warsaw Mokotow" -> "warsaw mokotow"
         [] s = "Poland" -> "poland"
         [] s = "Germany" -> "germany"
         [] OTHER -> s]

Lower(s) == LowerTable[s]

\* set(a) & set(b) over the lower-cased entries, given as the shared entries
\* in the order of their first occurrence in a
RECURSIVE SharedLower(_, _, _)
SharedLowerRec(a, b, seen) ==
    IF a = <<>> THEN <<>>
    ELSE LET h == Lower(Head(a))
         IN  IF h \notin seen /\ h \in {Lower(b[k]) : k \in 1..Len(b)}
             THEN <<h>> \o SharedLower(Tail(a), b, seen \cup {h})
             ELSE SharedLower(Tail(a), b, seen)
SharedLower(a, b, seen) ==
    Strict2(a, b, LAMBDA x, y : Strict(seen, LAMBDA z : SharedLowerRec(x, y, z)))

\* the strings' hash seeds a process can start with: str hashes are salted per
\* process (PYTHONHASHSEED is random unless set), and a set of strings iterates
\* in the order its hashes give.  Two seeds stand for all of them.
HashSeeds == {0, 1}

Reverse(s) == [k \in 1..Len(s) |-> s[Len(s) + 1 - k]]

\* list(a_set): the entries in the order the process's hashes give, here the
\* order of first occurrence under seed 0 and its reverse under seed 1
ListOfSet(s) == IF hashSeed = 0 THEN s ELSE Reverse(s)

\* _get_shared_interests
GetSharedInterests(u, c) == ListOfSet(SharedLower(GetInterests(u), GetInterests(c), {}))

\* _get_shared_languages
GetSharedLanguages(u, c) == ListOfSet(SharedLower(u.languages, c.languages, {}))

----------------------------------------------------------------------------
(* Phase 1: the deal-breaker check *)

\* _check_deal_breakers(user, candidate): None, or Some(reason); the reason
\* strings of the source are abbreviated to the name of the rule that fired
CheckDealBreakers(u, c) ==
    LET user_db == IF IsSome(u.tenant_profile)
                   THEN Val(u.tenant_profile).deal_breakers ELSE None
        candidate_prefs == IF IsSome(Preferences(c))
                           THEN Val(Preferences(c)).lifestyle_preferences ELSE None
        candidate_traits == IF IsSome(c.tenant_profile)
                            THEN Val(c.tenant_profile).flatmate_traits ELSE None
        db == Val(user_db)
        candidate_budget == IF IsSome(Preferences(c)) THEN Val(Preferences(c)).budget ELSE None
        candidate_noise == IF IsSome(candidate_traits)
                           THEN Val(candidate_traits).noise_tolerance ELSE None
        user_min_idx == IndexOf(CleanlinessEnum, Val(db.min_cleanliness))
        candidate_idx == IndexOf(CleanlinessEnum, Val(Val(candidate_traits).cleanliness))
    IN  IF ~IsSome(user_db) THEN None
        ELSE IF db.no_smokers /\ IsSome(candidate_prefs)
                /\ TruthyBool(Val(candidate_prefs).smokes)
             THEN Some("Candidate smokes (deal-breaker)")
        ELSE IF db.no_pets /\ IsSome(candidate_prefs)
                /\ TruthyBool(Val(candidate_prefs).has_pets)
             THEN Some("Candidate has pets (deal-breaker)")
        ELSE IF db.same_gender_only /\ IsSome(u.gender) /\ IsSome(c.gender)
                /\ u.gender # c.gender
             THEN Some("Gender mismatch (same gender required)")
        ELSE IF TruthyNum(c.age) /\ TruthyNum(db.min_age) /\ Val(c.age) < Val(db.min_age)
             THEN Some("Candidate age below minimum")
        ELSE IF TruthyNum(c.age) /\ TruthyNum(db.max_age) /\ Val(c.age) > Val(db.max_age)
             THEN Some("Candidate age above maximum")
        ELSE IF IsSome(db.min_cleanliness) /\ IsSome(candidate_traits)
                /\ IsSome(Val(candidate_traits).cleanliness)
                /\ user_min_idx # 0 /\ candidate_idx # 0
                /\ candidate_idx > user_min_idx
             THEN Some("Cleanliness below minimum")
        ELSE IF TruthyNum(db.max_budget) /\ IsSome(candidate_budget)
                /\ TruthyNum(Val(candidate_budget).min)
                /\ Val(Val(candidate_budget).min) > Val(db.max_budget)
             THEN Some("Budget incompatible")
        ELSE IF db.quiet_hours_required
                /\ "night_owl" \in SeqToSet(GetPersonality(c))
                /\ candidate_noise \in {Some("very_tolerant"), Some("tolerant")}
             THEN Some("Candidate may not respect quiet hours")
        ELSE IF db.no_parties /\ IsSome(candidate_traits)
                /\ Val(candidate_traits).guests_frequency = Some("often")
                /\ Val(candidate_traits).social_level \in {Some("very_social"), Some("social")}
             THEN Some("Candidate likely hosts parties")
        ELSE None

----------------------------------------------------------------------------
(* Phase 2: the category scorers.  Each returns                              *)
(* [raised, score, explanations]; score and explanations mean nothing when   *)
(* raised is TRUE.                                                           *)

Scored(score, explanations) ==
    [raised |-> FALSE, score |-> score, explanations |-> explanations]
\* a budget result also records the overlap ratio it computed (history)
WithOverlap(result, overlap) ==
    [raised |-> result.raised, score |-> result.score,
     explanations |-> result.explanations, overlap |-> overlap]
Raised == [raised |-> TRUE, score |-> FInt(0), explanations |-> <<>>]

\* _score_budget
ScoreBudget(u, c) ==
    LET user_budget == GetBudget(u)
        candidate_budget == GetBudget(c)
        ub == Val(user_budget)
        cb == Val(candidate_budget)
        overlap == CalculateRangeOverlap(ub.min, ub.max, cb.min, cb.max)
        max_budget == Max2(ub.max, cb.max)
        \* |user_mid - candidate_mid| * 2
        mid_delta == Abs((ub.min + ub.max) - (cb.min + cb.max))
        \* 100 * (1 - midpoint_diff * 2), midpoint_diff = mid_delta / 2 / max_budget
        midpoint_score == IF max_budget > 0
                          THEN FMax(FInt(0), Frac(100 * (max_budget - mid_delta), max_budget))
                          ELSE FInt(100)
        score == FAdd(FScale(overlap, 70, 1), FScale(midpoint_score, 3, 10))
        shown == Tenths(Round1(score))
    IN  IF ~IsSome(user_budget) \/ ~IsSome(candidate_budget)
        THEN WithOverlap(Scored(FInt(50), <<Exp("Budget", "Budget information incomplete", "neutral", FInt(50))>>), None)
        ELSE IF ub.currency # cb.currency
        THEN WithOverlap(Scored(FInt(30), <<Exp("Budget", "Different currencies", "negative", FInt(30))>>), None)
        ELSE WithOverlap(
               IF FGeInt(score, 85)
               THEN Scored(score, <<Exp("Budget", "Excellent budget match", "positive", shown)>>)
               ELSE IF FGeInt(score, 60)
               THEN Scored(score, <<Exp("Budget", "Good budget overlap", "neutral", shown)>>)
               ELSE IF FGeInt(score, 40)
               THEN Scored(score, <<Exp("Budget", "Limited budget overlap", "neutral", shown)>>)
               ELSE Scored(score, <<Exp("Budget", "Significant budget mismatch", "negative", shown)>>),
               Some(overlap))

\* _score_smoking_compatibility; the arguments are the lifestyle dicts
ScoreSmokingCompatibility(user_prefs, candidate_prefs) ==
    LET user_smokes == TruthyBool(DictGet(user_prefs, "smokes", Some(FALSE)))
        user_ok == TruthyBool(DictGet(user_prefs, "okWithSmoking", Some(TRUE)))
        candidate_smokes == TruthyBool(DictGet(candidate_prefs, "smokes", Some(FALSE)))
        candidate_ok == TruthyBool(DictGet(candidate_prefs, "okWithSmoking", Some(TRUE)))
    IN  IF ~user_smokes /\ ~candidate_smokes THEN 100
        ELSE IF ~user_smokes /\ candidate_smokes THEN (IF user_ok THEN 70 ELSE 15)
        ELSE IF user_smokes /\ ~candidate_smokes THEN (IF candidate_ok THEN 70 ELSE 15)
        ELSE IF user_smokes /\ candidate_smokes THEN 95
        ELSE 60

\* _score_pets_compatibility
ScorePetsCompatibility(user_prefs, candidate_prefs) ==
    LET user_has_pets == TruthyBool(DictGet(user_prefs, "hasPets", Some(FALSE)))
        user_ok == TruthyBool(DictGet(user_prefs, "okWithPets", Some(TRUE)))
        candidate_has_pets == TruthyBool(DictGet(candidate_prefs, "hasPets", Some(FALSE)))
        candidate_ok == TruthyBool(DictGet(candidate_prefs, "okWithPets", Some(TRUE)))
    IN  IF ~user_has_pets /\ ~candidate_has_pets THEN 100
        ELSE IF user_has_pets /\ ~candidate_has_pets THEN (IF candidate_ok THEN 85 ELSE 20)
        ELSE IF ~user_has_pets /\ candidate_has_pets THEN (IF user_ok THEN 85 ELSE 20)
        ELSE IF user_has_pets /\ candidate_has_pets THEN 90
        ELSE 70

\* _score_lifestyle
ScoreLifestyle(u, c) ==
    LET user_prefs == GetLifestylePrefs(u)
        candidate_prefs == GetLifestylePrefs(c)
        user_traits == GetFlatmateTraits(u)
        candidate_traits == GetFlatmateTraits(c)
        smoking_score == ScoreSmokingCompatibility(user_prefs, candidate_prefs)
        pets_score == ScorePetsCompatibility(user_prefs, candidate_prefs)
        cleanliness_score == ScoreEnumDistance(DictGet(user_traits, "cleanliness", None),
                                 DictGet(candidate_traits, "cleanliness", None), CleanlinessEnum)
        social_score == ScoreEnumDistance(DictGet(user_traits, "socialLevel", None),
                                 DictGet(candidate_traits, "socialLevel", None), SocialLevelEnum)
        guests_score == ScoreEnumDistance(DictGet(user_traits, "guestsFrequency", None),
                                 DictGet(candidate_traits, "guestsFrequency", None), GuestsFrequencyEnum)
        noise_score == ScoreEnumDistance(DictGet(user_traits, "noiseTolerance", None),
                                 DictGet(candidate_traits, "noiseTolerance", None), NoiseToleranceEnum)
        cooking_score == ScoreEnumDistance(DictGet(user_traits, "cookingFrequency", None),
                                 DictGet(candidate_traits, "cookingFrequency", None), CookingFrequencyEnum)
        user_cooking == DictGet(user_traits, "cookingFrequency", None)
        e1 == IF smoking_score < 50
              THEN <<Exp("Lifestyle", "Smoking preference conflict", "negative", FInt(smoking_score))>>
              ELSE IF smoking_score >= 90
                      /\ ~TruthyBool(DictGet(candidate_prefs, "smokes", None))
                      /\ ~TruthyBool(DictGet(user_prefs, "smokes", None))
              THEN <<Exp("Lifestyle", "Both non-smokers", "positive", FInt(smoking_score))>>
              ELSE <<>>
        e2 == IF pets_score < 50
              THEN <<Exp("Lifestyle", "Pet preference mismatch", "negative", FInt(pets_score))>>
              ELSE IF TruthyBool(DictGet(candidate_prefs, "hasPets", None))
                      /\ TruthyBool(DictGet(user_prefs, "okWithPets", None))
              THEN <<Exp("Lifestyle", "You're open to pets", "positive", FInt(pets_score))>>
              ELSE <<>>
        e3 == IF cleanliness_score >= 85
              THEN <<Exp("Lifestyle", "Similar cleanliness standards", "positive", FInt(cleanliness_score))>>
              ELSE IF cleanliness_score < 50
              THEN <<Exp("Lifestyle", "Different cleanliness expectations", "negative", FInt(cleanliness_score))>>
              ELSE <<>>
        e4 == IF social_score >= 80 /\ IsSome(DictGet(user_traits, "socialLevel", None))
              THEN <<Exp("Lifestyle", "Compatible social levels", "positive", FInt(social_score))>>
              ELSE <<>>
        e5 == IF guests_score < 50
              THEN <<Exp("Lifestyle", "Different guest frequency preferences", "negative", FInt(guests_score))>>
              ELSE <<>>
        e6 == IF noise_score < 40
              THEN <<Exp("Lifestyle", "Very different noise tolerance", "negative", FInt(noise_score))>>
              ELSE <<>>
        e7 == IF cooking_score >= 80 /\ IsSome(user_cooking)
                 /\ user_cooking \in {Some("daily"), Some("often")}
              THEN <<Exp("Lifestyle", "Both enjoy cooking", "positive", FInt(cooking_score))>>
              ELSE <<>>
        scores == <<smoking_score, pets_score, cleanliness_score, social_score,
                    guests_score, noise_score, cooking_score>>
        ws == <<20, 15, 25, 15, 10, 10, 5>>
    IN  Scored(WeightedAverage(scores, ws), e1 \o e2 \o e3 \o e4 \o e5 \o e6 \o e7)

\* the axis with the opposite-tags test written for one direction only
PersonalityAxisOneWay(up, cp, tagA, tagB, bothA, bothB, mixed, expA, expB, expMixed) ==
    LET uA == tagA \in up
        uB == tagB \in up
        cA == tagA \in cp
        cB == tagB \in cp
    IN  IF ~(uA \/ uB \/ cA \/ cB) THEN <<>>
        ELSE IF uA /\ cA THEN <<[s |-> bothA, e |-> expA]>>
        ELSE IF uB /\ cB THEN <<[s |-> bothB, e |-> expB]>>
        ELSE IF uA /\ cB THEN <<[s |-> mixed, e |-> expMixed]>>
        ELSE <<[s |-> 70, e |-> <<>>]>>

\* one axis of _score_personality: <<>> when neither side has a tag of the axis,
\* else <<[s |-> axis score, e |-> its explanations]>>
PersonalityAxis(up, cp, tagA, tagB, bothA, bothB, mixed, expA, expB, expMixed) ==
    LET uA == tagA \in up
        uB == tagB \in up
        cA == tagA \in cp
        cB == tagB \in cp
    IN  IF ~(uA \/ uB \/ cA \/ cB) THEN <<>>
        ELSE IF uA /\ cA THEN <<[s |-> bothA, e |-> expA]>>
        ELSE IF uB /\ cB THEN <<[s |-> bothB, e |-> expB]>>
        ELSE IF (uA /\ cB) \/ (uB /\ cA) THEN <<[s |-> mixed, e |-> expMixed]>>
        ELSE <<[s |-> 70, e |-> <<>>]>>

\* the four axes of _score_personality in the order scored, over the tag sets
\* of the two sides: the values appended to scores (and their explanations)
PersonalityAxes(up, cp) ==
    <<PersonalityAxis(up, cp, "introvert", "extrovert", 95, 90, 55,
          <<Exp("Personality", "Both introverts", "positive", FInt(95))>>,
          <<Exp("Personality", "Both extroverts", "positive", FInt(90))>>,
          <<Exp("Personality", "Introvert-extrovert mix", "neutral", FInt(55))>>),
      PersonalityAxis(up, cp, "early_bird", "night_owl", 100, 100, 35,
          <<Exp("Personality", "Both early birds", "positive", FInt(100))>>,
          <<Exp("Personality", "Both night owls", "positive", FInt(100))>>,
          <<Exp("Personality", "Opposite sleep schedules", "negative", FInt(35))>>),
      PersonalityAxis(up, cp, "neat", "messy", 100, 85, 40,
          <<Exp("Personality", "Both value tidiness", "positive", FInt(100))>>,
          <<>>,
          <<Exp("Personality", "Different tidiness standards", "negative", FInt(40))>>),
      \* the quiet/talkative axis explains only the seeker-quiet, candidate-talkative mix
      PersonalityAxis(up, cp, "quiet", "talkative", 90, 85, 50, <<>>, <<>>,
          IF "quiet" \in up /\ "talkative" \in cp
          THEN <<Exp("Personality", "Quiet-talkative mix", "neutral", FInt(50))>>
          ELSE <<>>)>>

\* _score_personality
ScorePersonality(u, c) ==
    LET user_personality == GetPersonality(u)
        candidate_personality == GetPersonality(c)
        axes == PersonalityAxes(SeqToSet(user_personality), SeqToSet(candidate_personality))
        a1 == axes[1]
        a2 == axes[2]
        a3 == axes[3]
        a4 == axes[4]
        scores == (IF a1 = <<>> THEN <<>> ELSE <<a1[1].s>>) \o (IF a2 = <<>> THEN <<>> ELSE <<a2[1].s>>)
                  \o (IF a3 = <<>> THEN <<>> ELSE <<a3[1].s>>) \o (IF a4 = <<>> THEN <<>> ELSE <<a4[1].s>>)
        ws == (IF a1 = <<>> THEN <<>> ELSE <<30>>) \o (IF a2 = <<>> THEN <<>> ELSE <<35>>)
              \o (IF a3 = <<>> THEN <<>> ELSE <<25>>) \o (IF a4 = <<>> THEN <<>> ELSE <<10>>)
        explanations == (IF a1 = <<>> THEN <<>> ELSE a1[1].e) \o (IF a2 = <<>> THEN <<>> ELSE a2[1].e)
                        \o (IF a3 = <<>> THEN <<>> ELSE a3[1].e) \o (IF a4 = <<>> THEN <<>> ELSE a4[1].e)
    IN  IF user_personality = <<>> /\ candidate_personality = <<>>
        THEN Scored(FInt(60), <<Exp("Personality", "Personality traits not specified", "neutral", FInt(60))>>)
        ELSE IF scores # <<>> /\ ws # <<>>
        THEN Scored(IF SumSeq(ws) > 0 THEN WeightedAverage(scores, ws) ELSE FInt(60), explanations)
        ELSE Scored(FInt(60), explanations)

\* bool(s) for an Optional time string: None and "" are falsy
TruthyStr(o) == IsSome(o) /\ Val(o) # <<>>

\* the wake-up comparison of _score_schedule: <<>> or <<[s, e]>>
WakeScore(diff) ==
    IF diff <= 30
    THEN [s |-> 100, e |-> <<Exp("Schedule", "Wake up times nearly identical", "positive", FInt(100))>>]
    ELSE IF diff <= 60 THEN [s |-> 90, e |-> <<>>]
    ELSE IF diff <= 90 THEN [s |-> 80, e |-> <<>>]
    ELSE IF diff <= 120 THEN [s |-> 65, e |-> <<>>]
    ELSE IF diff <= 180 THEN [s |-> 50, e |-> <<>>]
    ELSE [s |-> 30, e |-> <<Exp("Schedule", "Very different wake times", "negative", FInt(30))>>]

\* the sleep-time comparison of _score_schedule
SleepScore(diff) ==
    IF diff <= 30
    THEN [s |-> 100, e |-> <<Exp("Schedule", "Sleep times align perfectly", "positive", FInt(100))>>]
    ELSE IF diff <= 60 THEN [s |-> 90, e |-> <<>>]
    ELSE IF diff <= 90 THEN [s |-> 75, e |-> <<>>]
    ELSE IF diff <= 120 THEN [s |-> 60, e |-> <<>>]
    ELSE IF diff <= 180 THEN [s |-> 45, e |-> <<>>]
    ELSE [s |-> 25, e |-> <<Exp("Schedule", "Very different sleep times", "negative", FInt(25))>>]

\* the work-hours comparison of _score_schedule
WorkScore(diff) ==
    IF diff <= 60 THEN [s |-> 70, e |-> <<>>]
    ELSE IF diff >= 120
    THEN [s |-> 90, e |-> <<Exp("Schedule", "Staggered work times", "positive", FInt(90))>>]
    ELSE [s |-> 80, e |-> <<>>]

\* _score_schedule.  With exactly one routine None the early return is not taken
\* and .get is called on None: user_routine.get("wakeUp") raises AttributeError
\* when the seeker's routine is None; candidate_routine.get(...) raises when the
\* candidate's is None and the seeker's wakeUp or sleepTime is truthy (the
\* "and" does not short-circuit before it).
ScoreSchedule(u, c) ==
    LET user_routine == GetDailyRoutine(u)
        candidate_routine == GetDailyRoutine(c)
        ur == Val(user_routine)
        cr == Val(candidate_routine)
        wake == IF TruthyStr(ur.wakeUp) /\ TruthyStr(cr.wakeUp)
                THEN LET time_diff == TimeDifferenceMinutes(Val(ur.wakeUp), Val(cr.wakeUp))
                     IN  IF IsSome(time_diff) THEN <<WakeScore(Val(time_diff))>> ELSE <<>>
                ELSE <<>>
        sleep == IF TruthyStr(ur.sleepTime) /\ TruthyStr(cr.sleepTime)
                 THEN LET time_diff == TimeDifferenceMinutes(Val(ur.sleepTime), Val(cr.sleepTime))
                      IN  IF IsSome(time_diff) THEN <<SleepScore(Val(time_diff))>> ELSE <<>>
                 ELSE <<>>
        user_work == IF IsSome(user_routine) THEN ur.workHours ELSE None
        candidate_work == IF IsSome(candidate_routine) THEN cr.workHours ELSE None
        work == IF IsSome(user_work) /\ IsSome(candidate_work)
                   /\ TruthyStr(Val(user_work).from) /\ TruthyStr(Val(candidate_work).from)
                THEN LET work_diff == TimeDifferenceMinutes(Val(Val(user_work).from),
                                                            Val(Val(candidate_work).from))
                     IN  IF IsSome(work_diff) THEN <<WorkScore(Val(work_diff))>> ELSE <<>>
                ELSE <<>>
        scores == (IF wake = <<>> THEN <<>> ELSE <<wake[1].s>>)
                  \o (IF sleep = <<>> THEN <<>> ELSE <<sleep[1].s>>)
                  \o (IF work = <<>> THEN <<>> ELSE <<work[1].s>>)
        ws == (IF wake = <<>> THEN <<>> ELSE <<40>>) \o (IF sleep = <<>> THEN <<>> ELSE <<40>>)
              \o (IF work = <<>> THEN <<>> ELSE <<20>>)
        explanations == (IF wake = <<>> THEN <<>> ELSE wake[1].e)
                        \o (IF sleep = <<>> THEN <<>> ELSE sleep[1].e)
                        \o (IF work = <<>> THEN <<>> ELSE work[1].e)
    IN  IF ~IsSome(user_routine) /\ ~IsSome(candidate_routine)
        THEN Scored(FInt(65), <<Exp("Schedule", "Schedule information not available", "neutral", FInt(65))>>)
        ELSE IF ~IsSome(user_routine) THEN Raised
        ELSE IF ~IsSome(candidate_routine) /\ (TruthyStr(ur.wakeUp) \/ TruthyStr(ur.sleepTime))
        THEN Raised
        ELSE IF ~IsSome(candidate_routine) THEN Scored(FInt(65), <<>>)
        ELSE IF scores # <<>> /\ ws # <<>>
        THEN Scored(IF SumSeq(ws) > 0 THEN WeightedAverage(scores, ws) ELSE FInt(65), explanations)
        ELSE Scored(FInt(65), explanations)

\* a in b for the lower-cased location strings of the model ("x in y" on Python
\* strings is the substring test)
IsSubstring(a, b) == a = b \/ <<a, b>> \in {<<"warsaw", "warsaw mokotow">>}

\* the regions table of _locations_in_same_region, in dict order.  The table's
\* spellings with Polish diacritics are left out: no location string of the
\* model contains them.
Regions ==
    << [region |-> "mazowieckie", cities |-> {"warsaw", "warszawa", "radom"}],
       [region |-> "malopolskie", cities |-> {"krakow", "tarnow"}],
       [region |-> "wielkopolskie", cities |-> {"poznan", "kalisz", "konin"}],
       [region |-> "pomorskie", cities |-> {"gdansk", "gdynia", "sopot"}],
       [region |-> "dolnoslaskie", cities |-> {"wroclaw", "legnica"}],
       [region |-> "slaskie", cities |-> {"katowice", "gliwice", "zabrze"}] >>

\* the region the loop of _locations_in_same_region leaves for loc: the last
\* region with a city that is a substring of loc, or None
RegionOf(loc) ==
    LET hits == {k \in 1..Len(Regions) : \E city \in Regions[k].cities : IsSubstring(city, loc)}
    IN  IF hits = {} THEN None
        ELSE Some(Regions[CHOOSE k \in hits : \A j \in hits : j <= k].region)

\* _locations_in_same_region
LocationsInSameRegion(loc1, loc2) ==
    IsSome(RegionOf(loc1)) /\ IsSome(RegionOf(loc2)) /\ RegionOf(loc1) = RegionOf(loc2)

\* s.lower().strip() of a location; no location string of the model has outer
\* white space
LowerStrip(s) == Lower(s)

\* bool(s) for an Optional string given as a TLA+ string
TruthyText(o) == IsSome(o) /\ Val(o) # ""

\* _score_location
ScoreLocation(u, c) ==
    LET user_location == IF TruthyText(u.location) THEN Some(LowerStrip(Val(u.location))) ELSE None
        candidate_location == IF TruthyText(c.location) THEN Some(LowerStrip(Val(c.location))) ELSE None
        user_pref_location == IF IsSome(Preferences(u)) THEN Val(Preferences(u)).location ELSE None
        user_country == IF IsSome(Preferences(u)) THEN Val(Preferences(u)).country ELSE None
        candidate_country == IF IsSome(Preferences(c)) THEN Val(Preferences(c)).country ELSE None
        user_pref_lower == LowerStrip(Val(user_pref_location))
        cl == Val(candidate_location)
        loc == IF TruthyText(user_pref_location) /\ TruthyText(candidate_location)
               THEN IF IsSubstring(user_pref_lower, cl) \/ IsSubstring(cl, user_pref_lower)
                    THEN [s |-> <<100>>, e |-> <<Exp("Location", "Both interested in", "positive", FInt(100))>>]
                    ELSE IF LocationsInSameRegion(user_pref_lower, cl)
                    THEN [s |-> <<75>>, e |-> <<Exp("Location", "Looking in similar regions", "neutral", FInt(75))>>]
                    ELSE [s |-> <<40>>, e |-> <<Exp("Location", "Different locations", "negative", FInt(40))>>]
               ELSE IF TruthyText(user_location) /\ TruthyText(candidate_location)
               THEN IF Val(user_location) = cl THEN [s |-> <<95>>, e |-> <<>>]
                    ELSE IF LocationsInSameRegion(Val(user_location), cl) THEN [s |-> <<70>>, e |-> <<>>]
                    ELSE [s |-> <<50>>, e |-> <<>>]
               ELSE [s |-> <<>>, e |-> <<>>]
        country == IF TruthyText(user_country) /\ TruthyText(candidate_country)
                   THEN IF Lower(Val(user_country)) = Lower(Val(candidate_country))
                        THEN [s |-> <<100>>, e |-> <<>>]
                        ELSE [s |-> <<30>>, e |-> <<Exp("Location", "Different country preferences", "negative", FInt(30))>>]
                   ELSE [s |-> <<>>, e |-> <<>>]
        scores == loc.s \o country.s
    IN  IF scores = <<>>
        THEN Scored(FInt(60), <<Exp("Location", "Location preferences not specified", "neutral", FInt(60))>>)
        ELSE Scored(Frac(SumSeq(scores), Len(scores)), loc.e \o country.e)

\* _score_preferences.  The language weight is appended whether or not a
\* language score was, so weights can be one longer than scores.
ScorePreferences(u, c) ==
    LET user_prefs == Preferences(u)
        candidate_prefs == Preferences(c)
        up == Val(user_prefs)
        age_range == Val(up.age_range)
        min_age == age_range[1]
        max_age == IF Len(age_range) > 1 THEN age_range[2] ELSE 100
        cage == Val(c.age)
        age_diff == IF cage < min_age THEN min_age - cage ELSE cage - max_age
        age_score == Max2(20, 100 - age_diff * 10)
        age == IF IsSome(user_prefs) /\ IsSome(up.age_range) /\ Val(up.age_range) # <<>>
                  /\ TruthyNum(c.age)
               THEN IF min_age <= cage /\ cage <= max_age
                    THEN [s |-> <<100>>, w |-> <<30>>,
                          e |-> <<Exp("Preferences", "Candidate age within your preferred range", "positive", FInt(100))>>]
                    ELSE [s |-> <<age_score>>, w |-> <<30>>,
                          e |-> IF age_score < 60
                                THEN <<Exp("Preferences", "Candidate age outside your preferred range", "negative", FInt(age_score))>>
                                ELSE <<>>]
               ELSE [s |-> <<>>, w |-> <<>>, e |-> <<>>]
        gender == IF IsSome(user_prefs) /\ IsSome(up.gender) /\ IsSome(c.gender)
                  THEN [s |-> IF up.gender = c.gender THEN <<100>> ELSE <<50>>, w |-> <<20>>, e |-> <<>>]
                  ELSE [s |-> <<>>, w |-> <<>>, e |-> <<>>]
        lease_diff == Abs(up.lease_duration_months - Val(candidate_prefs).lease_duration_months)
        lease == IF IsSome(user_prefs) /\ IsSome(candidate_prefs)
                 THEN IF lease_diff = 0
                      THEN [s |-> <<100>>, w |-> <<25>>,
                            e |-> <<Exp("Preferences", "Same lease duration preference", "positive", FInt(100))>>]
                      ELSE IF lease_diff <= 3 THEN [s |-> <<80>>, w |-> <<25>>, e |-> <<>>]
                      ELSE IF lease_diff <= 6 THEN [s |-> <<60>>, w |-> <<25>>, e |-> <<>>]
                      ELSE [s |-> <<40>>, w |-> <<25>>,
                            e |-> <<Exp("Preferences", "Different lease preferences", "negative", FInt(40))>>]
                 ELSE [s |-> <<>>, w |-> <<>>, e |-> <<>>]
        shared_languages == GetSharedLanguages(u, c)
        lang_score == Min2(100, 60 + Len(shared_languages) * 20)
        lang == IF shared_languages # <<>>
                THEN [s |-> <<lang_score>>,
                      e |-> IF Len(shared_languages) >= 2
                            THEN <<Exp("Preferences", "Share languages", "positive", FInt(lang_score))>>
                            ELSE <<>>]
                ELSE IF u.languages # <<>> /\ c.languages # <<>>
                THEN [s |-> <<30>>, e |-> <<Exp("Preferences", "No common languages", "negative", FInt(30))>>]
                ELSE [s |-> <<>>, e |-> <<>>]
        scores == age.s \o gender.s \o lease.s \o lang.s
        ws == age.w \o gender.w \o lease.w \o <<25>>
    IN  IF scores = <<>>
        THEN Scored(FInt(60), <<Exp("Preferences", "Preference information incomplete", "neutral", FInt(60))>>)
        ELSE Scored(IF SumSeq(ws) > 0 THEN WeightedAverage(scores, ws) ELSE FInt(60),
                    age.e \o gender.e \o lease.e \o lang.e)

\* _score_interests
ScoreInterests(u, c) ==
    LET shared == GetSharedInterests(u, c)
        user_interests == GetInterests(u)
        candidate_interests == GetInterests(c)
        total_unique == Cardinality(SeqToSet(user_interests) \cup SeqToSet(candidate_interests))
        overlap_ratio == IF total_unique > 0 THEN Frac(Len(shared), total_unique) ELSE FInt(0)
        base_score == FScale(overlap_ratio, 70, 1)
        count_bonus == Min2(30, Len(shared) * 6)
        score == FMin(FInt(100), FAdd(base_score, FInt(count_bonus)))
        shown == Tenths(Round1(score))
    IN  IF user_interests = <<>>
        THEN Scored(FInt(50), <<Exp("Interests", "No interests specified in your profile", "neutral", FInt(50))>>)
        ELSE IF candidate_interests = <<>>
        THEN Scored(FInt(50), <<Exp("Interests", "Candidate has no interests listed", "neutral", FInt(50))>>)
        ELSE IF Len(shared) >= 4
        THEN Scored(score, <<Exp("Interests", "Strong interest overlap", "positive", shown)>>)
        ELSE IF Len(shared) >= 2
        THEN Scored(score, <<Exp("Interests", "Share interests", "positive", shown)>>)
        ELSE IF Len(shared) = 1
        THEN Scored(score, <<Exp("Interests", "One shared interest", "neutral", shown)>>)
        ELSE Scored(score, <<Exp("Interests", "No overlapping interests", "neutral", shown)>>)

----------------------------------------------------------------------------
(* Aggregation *)

\* a faulty weight table: the weights of budget and lifestyle exchanged
SwappedWeights ==
    [budget |-> 25, lifestyle |-> 20, personality |-> 15, schedule |-> 12,
     location |-> 10, preferences |-> 10, interests |-> 8]

\* WEIGHTS
WEIGHTS ==
    [budget |-> 20, lifestyle |-> 25, personality |-> 15, schedule |-> 12,
     location |-> 10, preferences |-> 10, interests |-> 8]

\* the categories in the order _calculate_compatibility scores them
Categories ==
    <<"budget", "lifestyle", "personality", "schedule", "location", "preferences", "interests">>

\* MATCH_TIERS
TierPerfect == 85
TierGreat == 70
TierGood == 55
TierFair == 40

\* sum(table.values())
RECURSIVE SumValues(_, _)
SumValues(table, keys) ==
    IF keys = {} THEN 0
    ELSE LET k == CHOOSE x \in keys : TRUE
         IN  table[k] + SumValues(table, keys \ {k})

\* the sort key of the explanations: (impact_order.get(impact, 1), -score)
ImpactOrder(impact) ==
    IF impact = "positive" THEN 0 ELSE IF impact = "negative" THEN 2 ELSE 1

\* a faulty key: the impact alone
ImpactOnlyLess(a, b) == ImpactOrder(a.impact) < ImpactOrder(b.impact)

ExpKeyLess(a, b) ==
    \/ ImpactOrder(a.impact) < ImpactOrder(b.impact)
    \/ ImpactOrder(a.impact) = ImpactOrder(b.impact) /\ FLt(b.score, a.score)

\* list.sort(key=...) is stable: an entry goes before the first entry whose key
\* is strictly greater
RECURSIVE InsertExp(_, _)
InsertExpRec(sorted, x) ==
    IF sorted = <<>> THEN <<x>>
    ELSE IF ExpKeyLess(x, Head(sorted)) THEN <<x>> \o sorted
    ELSE <<Head(sorted)>> \o InsertExp(Tail(sorted), x)
InsertExp(sorted, x) == Strict2(sorted, x, InsertExpRec)

RECURSIVE SortExplanations(_, _)
SortExplanationsRec(done, rest) ==
    IF rest = <<>> THEN done
    ELSE SortExplanations(InsertExp(done, Head(rest)), Tail(rest))
SortExplanations(done, rest) == Strict2(done, rest, SortExplanationsRec)

\* the weighted total: sum(scores[cat] * (self.weights[cat] / 100) for cat in scores)
RECURSIVE WeightedTotal(_, _, _)
WeightedTotalRec(w, scores, cats) ==
    IF cats = <<>> THEN FInt(0)
    ELSE FAdd(FScale(scores[Head(cats)], w[Head(cats)], 100),
              WeightedTotal(w, scores, Tail(cats)))
WeightedTotal(w, scores, cats) ==
    Strict2(scores, cats, LAMBDA s, c : WeightedTotalRec(w, s, c))

\* the seven scorer calls of _calculate_compatibility, in order
ScorerResults(u, c) ==
    [budget |-> ScoreBudget(u, c), lifestyle |-> ScoreLifestyle(u, c),
     personality |-> ScorePersonality(u, c), schedule |-> ScoreSchedule(u, c),
     location |-> ScoreLocation(u, c), preferences |-> ScorePreferences(u, c),
     interests |-> ScoreInterests(u, c)]

\* _calculate_compatibility with self.weights = w.  An exception of a scorer
\* is not caught; self.weights[cat] raises KeyError for a category the table
\* lacks.  raised = TRUE stands for the exception leaving the method.
CompatibilityOf(w, r) ==
    LET scores == [cat \in SeqToSet(Categories) |-> r[cat].score]
        explanations == r.budget.explanations \o r.lifestyle.explanations
                        \o r.personality.explanations \o r.schedule.explanations
                        \o r.location.explanations \o r.preferences.explanations
                        \o r.interests.explanations
        failed == [raised |-> TRUE, error |-> "", total |-> FInt(0), by_category |-> r,
                   breakdown |-> <<>>, explanations |-> <<>>]
    IN  IF \E cat \in SeqToSet(Categories) : r[cat].raised
        THEN [failed EXCEPT !.error = "AttributeError"]
        ELSE IF \E cat \in SeqToSet(Categories) : cat \notin DOMAIN w
        THEN [failed EXCEPT !.error = "KeyError"]
        ELSE Strict(WeightedTotal(w, scores, Categories), LAMBDA total :
              [raised |-> FALSE, error |-> "", total |-> total, by_category |-> r,
               breakdown |-> [budgetScore |-> Round1(r.budget.score),
                              lifestyleScore |-> Round1(r.lifestyle.score),
                              personalityScore |-> Round1(r.personality.score),
                              scheduleScore |-> Round1(r.schedule.score),
                              locationScore |-> Round1(r.location.score),
                              preferencesScore |-> Round1(r.preferences.score),
                              interestsScore |-> Round1(r.interests.score),
                              totalScore |-> Round1(total)],
               explanations |-> SortExplanations(<<>>, explanations)])
CalculateCompatibility(w, u, c) ==
    Strict(ScorerResults(u, c), LAMBDA r : CompatibilityOf(w, r))

\* _get_match_tier
GetMatchTier(score) ==
    IF FGeInt(score, TierPerfect) THEN "perfect"
    ELSE IF FGeInt(score, TierGreat) THEN "great"
    ELSE IF FGeInt(score, TierGood) THEN "good"
    ELSE IF FGeInt(score, TierFair) THEN "fair"
    ELSE "poor"

\* results.sort(key=compatibility_score, reverse=True): stable, descending
RECURSIVE InsertResult(_, _)
\* a faulty insertion: the later of two equal scores goes first
InsertBeforeEqual(sorted, x) ==
    IF sorted = <<>> THEN <<x>>
    ELSE IF x.compatibility_score >= Head(sorted).compatibility_score THEN <<x>> \o sorted
    ELSE <<Head(sorted)>> \o InsertResult(Tail(sorted), x)
InsertResultRec(sorted, x) ==
    IF sorted = <<>> THEN <<x>>
    ELSE IF x.compatibility_score > Head(sorted).compatibility_score THEN <<x>> \o sorted
    ELSE <<Head(sorted)>> \o InsertResult(Tail(sorted), x)
InsertResult(sorted, x) == Strict2(sorted, x, InsertResultRec)

RECURSIVE SortResults(_, _)
SortResultsRec(done, rest) ==
    IF rest = <<>> THEN done
    ELSE SortResults(InsertResult(done, Head(rest)), Tail(rest))
SortResults(done, rest) == Strict2(done, rest, SortResultsRec)

\* a faulty return: the list not cut to the limit
NoSlice(s, n) == s

\* seq[:n]
SliceTo(s, n) ==
    LET m == IF n >= 0 THEN Min2(n, Len(s)) ELSE Max2(0, Len(s) + n)
    IN  SubSeq(s, 1, m)

CountTier(rs, tier) == Cardinality({k \in 1..Len(rs) : rs[k].match_tier = tier})

\* _calculate_match_stats
CalculateMatchStats(rs) ==
    LET scores == [k \in 1..Len(rs) |-> rs[k].compatibility_score]
        highest == CHOOSE k \in 1..Len(rs) : \A j \in 1..Len(rs) : scores[j] <= scores[k]
        lowest == CHOOSE k \in 1..Len(rs) : \A j \in 1..Len(rs) : scores[j] >= scores[k]
    IN  IF rs = <<>>
        THEN [average_score |-> 0, perfect_matches |-> 0, great_matches |-> 0,
              good_matches |-> 0]
        ELSE [average_score |-> Round1(Frac(SumSeq(scores), 10 * Len(rs))),
              highest_score |-> scores[highest],
              lowest_score |-> scores[lowest],
              perfect_matches |-> CountTier(rs, "perfect"),
              great_matches |-> CountTier(rs, "great"),
              good_matches |-> CountTier(rs, "good")]

----------------------------------------------------------------------------
(* Profiles: the pydantic defaults of app/models/user.py *)

\* LifestylePreferencesModel()
LifestylePreferencesModel ==
    [smokes |-> None, has_pets |-> None, ok_with_smoking |-> None, ok_with_pets |-> None]

\* BudgetModel(min, max) with the default currency
BudgetModel(lo, hi) == [currency |-> "PLN", min |-> lo, max |-> hi]

\* PreferencesModel()
PreferencesModel ==
    [location |-> None, gender |-> None, age_range |-> None, country |-> None,
     lifestyle_preferences |-> None, budget |-> None, lease_duration_months |-> 12]

\* FlatmateTraitsModel()
FlatmateTraitsModel ==
    [cleanliness |-> None, social_level |-> None, guests_frequency |-> None,
     cooking_frequency |-> None, noise_tolerance |-> None]

\* DealBreakersModel()
DealBreakersModel ==
    [no_smokers |-> FALSE, no_pets |-> FALSE, no_parties |-> FALSE,
     same_gender_only |-> FALSE, quiet_hours_required |-> FALSE,
     min_age |-> None, max_age |-> None, min_cleanliness |-> None, max_budget |-> None]

\* DailyRoutineModel()
DailyRoutineModel == [wake_up |-> None, sleep_time |-> None, work_hours |-> None]

\* WorkHoursModel(from, to)
WorkHoursModel(from, to) == [from_time |-> from, to |-> to]

\* TenantProfileModel()
TenantProfileModel ==
    [interests |-> <<>>, personality |-> <<>>, daily_routine |-> None,
     preferences |-> None, flatmate_traits |-> None, deal_breakers |-> None]

\* User(id): the fields the engine reads, at their defaults
User(id) ==
    [id |-> id, age |-> None, gender |-> None, location |-> None, languages |-> <<>>,
     tenant_profile |-> None]

\* field updates of a profile under construction
WithTP(u, field, v) ==
    [u EXCEPT !.tenant_profile =
        Some([(IF IsSome(@) THEN Val(@) ELSE TenantProfileModel) EXCEPT ![field] = v])]
WithPrefs(u, field, v) ==
    LET tp == IF IsSome(u.tenant_profile) THEN Val(u.tenant_profile) ELSE TenantProfileModel
        pr == IF IsSome(tp.preferences) THEN Val(tp.preferences) ELSE PreferencesModel
    IN  [u EXCEPT !.tenant_profile = Some([tp EXCEPT !.preferences = Some([pr EXCEPT ![field] = v])])]
WithTraits(u, field, v) ==
    LET tp == IF IsSome(u.tenant_profile) THEN Val(u.tenant_profile) ELSE TenantProfileModel
        ft == IF IsSome(tp.flatmate_traits) THEN Val(tp.flatmate_traits) ELSE FlatmateTraitsModel
    IN  [u EXCEPT !.tenant_profile = Some([tp EXCEPT !.flatmate_traits = Some([ft EXCEPT ![field] = v])])]
WithLifestyle(u, field, v) ==
    LET pr == IF IsSome(Preferences(u)) THEN Val(Preferences(u)) ELSE PreferencesModel
        lp == IF IsSome(pr.lifestyle_preferences) THEN Val(pr.lifestyle_preferences)
              ELSE LifestylePreferencesModel
    IN  WithPrefs(u, "lifestyle_preferences", Some([lp EXCEPT ![field] = v]))
WithDealBreakers(u, field, v) ==
    LET tp == IF IsSome(u.tenant_profile) THEN Val(u.tenant_profile) ELSE TenantProfileModel
        db == IF IsSome(tp.deal_breakers) THEN Val(tp.deal_breakers) ELSE DealBreakersModel
    IN  [u EXCEPT !.tenant_profile = Some([tp EXCEPT !.deal_breakers = Some([db EXCEPT ![field] = v])])]
WithRoutine(u, field, v) ==
    LET tp == IF IsSome(u.tenant_profile) THEN Val(u.tenant_profile) ELSE TenantProfileModel
        dr == IF IsSome(tp.daily_routine) THEN Val(tp.daily_routine) ELSE DailyRoutineModel
    IN  [u EXCEPT !.tenant_profile = Some([tp EXCEPT !.daily_routine = Some([dr EXCEPT ![field] = v])])]

----------------------------------------------------------------------------
(* The profiles find_matches is called with *)

\* seeker: age 28, budget PLN 1500-3000, clean; noSmokers, noParties, quietHoursRequired
Seeker ==
    LET a == [User(1) EXCEPT !.age = Some(28)]
        b == WithPrefs(a, "budget", Some(BudgetModel(Some(1500), Some(3000))))
        c == WithTraits(b, "cleanliness", Some("clean"))
        d == WithDealBreakers(c, "no_smokers", TRUE)
        e == WithDealBreakers(d, "no_parties", TRUE)
    IN  WithDealBreakers(e, "quiet_hours_required", TRUE)

\* candidate: age 26, budget PLN 1200-2500, very clean, non-smoker, quiet early bird
Tidy ==
    LET a == [User(2) EXCEPT !.age = Some(26)]
        b == WithPrefs(a, "budget", Some(BudgetModel(Some(1200), Some(2500))))
        c == WithTraits(b, "cleanliness", Some("very_clean"))
        d == WithLifestyle(c, "smokes", Some(FALSE))
    IN  WithTP(d, "personality", <<"quiet", "early_bird">>)

\* a smoker with a point budget and no deal-breakers of their own
Smoker ==
    LET a == WithLifestyle(User(3), "smokes", Some(TRUE))
        b == WithPrefs(a, "budget", Some(BudgetModel(Some(2000), Some(2000))))
    IN  [b EXCEPT !.languages = <<"English">>]

\* a profile with nothing filled in
Blank == User(4)

\* two profiles with a daily routine
Early ==
    LET a == WithRoutine(User(5), "wake_up", Some(<<7, 0>>))
        b == WithRoutine(a, "sleep_time", Some(<<23, 0>>))
        c == WithRoutine(b, "work_hours", Some(WorkHoursModel(Some(<<9, 0>>), Some(<<17, 0>>))))
    IN  [c EXCEPT !.languages = <<"English", "Polish">>, !.age = Some(35)]
Late ==
    LET a == WithRoutine(User(6), "wake_up", Some(<<10, 30>>))
        b == WithRoutine(a, "sleep_time", Some(<<1, 0>>))
        c == WithDealBreakers(b, "max_age", Some(27))
    IN  [c EXCEPT !.languages = <<"polish">>, !.age = Some(40)]

\* a clean night owl and a messy, quiet early bird with pets
NightOwl ==
    WithTP(WithTraits(User(7), "cleanliness", Some("clean")), "personality", <<"night_owl">>)
MessyPets ==
    LET a == WithTraits(User(8), "cleanliness", Some("messy"))
        b == WithLifestyle(a, "has_pets", Some(TRUE))
    IN  WithTP(b, "personality", <<"quiet", "early_bird">>)

\* the seeker's own record as it can turn up in a candidate list (same id)
SeekerAgain == WithDealBreakers([User(1) EXCEPT !.age = Some(28)], "max_age", Some(25))

Pool == {Seeker, Tidy, Smoker, Blank, Early, Late, NightOwl, MessyPets, SeekerAgain}

\* bounds of the calls
MaxCands == 2
\* (limit, min_score) of a call: limit 20 and min_score 0 are the defaults
CallArgs == {<<20, 0>>, <<1, 0>>, <<0, 0>>, <<20, 60>>, <<20, 101>>}
MinScores == {0, 60, 101}

RECURSIVE SeqsUpTo(_, _)
SeqsUpTo(S, n) ==
    IF n = 0 THEN {<<>>}
    ELSE LET shorter == SeqsUpTo(S, n - 1)
         IN  shorter \cup {Append(s, x) : s \in {t \in shorter : Len(t) = n - 1}, x \in S}

----------------------------------------------------------------------------
(* find_matches as a state machine: one step per pass of the for loop, and   *)
(* the return (sort, statistics, truncation) as the last step                *)

\* a faulty test: the seeker's own record not recognised
NeverSelf(u, c) == FALSE

\* line 104: str(candidate.id) == str(user.id)
IsSelf(u, c) == c.id = u.id

\* faulty variants of the two checks: the seeker's own rules never consulted,
\* and the second check made without exchanging the arguments
NoRejection(u, c) == None
NoCandidateRejection(u, c) == None
SameDirectionRejection(u, c) == CheckDealBreakers(u, c)

\* line 108: user_rejection
UserRejection(u, c) == CheckDealBreakers(u, c)
\* line 115: candidate_rejection
CandidateRejection(u, c) == CheckDealBreakers(c, u)

\* the entry appended to results for the candidate at position k
ResultEntry(u, c, k, cc) ==
    [user_id |-> c.id,
     age |-> c.age, gender |-> c.gender, location |-> c.location, languages |-> c.languages,
     compatibility_score |-> Round1(cc.total),
     match_tier |-> GetMatchTier(cc.total),
     score_breakdown |-> cc.breakdown,
     explanations |-> cc.explanations,
     shared_interests |-> GetSharedInterests(u, c),
     shared_languages |-> GetSharedLanguages(u, c),
     compatible |-> TRUE,
     pos |-> k]      \* history: the candidate's position in the list

InLoop == pc = "loop" /\ idx <= Len(candidates)

Frame ==
    UNCHANGED <<engine, weightsArg, weights, user, candidates, limit, min_score, calc,
                hashSeed, previous, jobVars, likeVars>>

\* lines 98-100: the locals at entry
EnterLocals ==
    /\ idx = 1
    /\ results = <<>>
    /\ filtered_count = 0
    /\ deal_breaker_reasons = <<>>
    /\ scoredIdx = {}
    /\ rejectedIdx = {}
    /\ error = ""
    /\ ret = None
    /\ calc = None

\* lines 104-105
SkipSelf ==
    /\ InLoop
    /\ IsSelf(user, candidates[idx])
    /\ idx' = idx + 1
    /\ UNCHANGED <<pc, results, filtered_count, deal_breaker_reasons, scoredIdx,
                   rejectedIdx, error, ret>>
    /\ Frame

Record(reasons, id, reason) ==
    [x \in DOMAIN reasons \cup {id} |-> IF x = id THEN reason ELSE reasons[x]]

\* lines 108-112
RejectedByUser ==
    /\ InLoop
    /\ ~IsSelf(user, candidates[idx])
    /\ IsSome(UserRejection(user, candidates[idx]))
    /\ filtered_count' = filtered_count + 1
    /\ deal_breaker_reasons' = Record(deal_breaker_reasons, candidates[idx].id,
            [mutual |-> FALSE, reason |-> Val(UserRejection(user, candidates[idx]))])
    /\ rejectedIdx' = rejectedIdx \cup {idx}
    /\ idx' = idx + 1
    /\ UNCHANGED <<pc, results, scoredIdx, error, ret>>
    /\ Frame

\* lines 115-119
RejectedByCandidate ==
    /\ InLoop
    /\ ~IsSelf(user, candidates[idx])
    /\ ~IsSome(UserRejection(user, candidates[idx]))
    /\ IsSome(CandidateRejection(user, candidates[idx]))
    /\ filtered_count' = filtered_count + 1
    /\ deal_breaker_reasons' = Record(deal_breaker_reasons, candidates[idx].id,
            [mutual |-> TRUE, reason |-> Val(CandidateRejection(user, candidates[idx]))])
    /\ rejectedIdx' = rejectedIdx \cup {idx}
    /\ idx' = idx + 1
    /\ UNCHANGED <<pc, results, scoredIdx, error, ret>>
    /\ Frame

PassesFilter ==
    /\ InLoop
    /\ ~IsSelf(user, candidates[idx])
    /\ ~IsSome(UserRejection(user, candidates[idx]))
    /\ ~IsSome(CandidateRejection(user, candidates[idx]))

\* line 122 when _calculate_compatibility raises: nothing catches it
ScoringRaises(cc) ==
    /\ cc.raised
    /\ error' = cc.error
    /\ pc' = "raised"
    /\ scoredIdx' = scoredIdx \cup {idx}
    /\ UNCHANGED <<idx, results, filtered_count, deal_breaker_reasons, rejectedIdx, ret>>

\* lines 122-126
BelowMinScore(cc) ==
    /\ ~cc.raised
    /\ FLtInt(cc.total, min_score)
    /\ scoredIdx' = scoredIdx \cup {idx}
    /\ idx' = idx + 1
    /\ UNCHANGED <<pc, results, filtered_count, deal_breaker_reasons, rejectedIdx, error, ret>>

\* lines 122-154
AppendResult(cc) ==
    /\ ~cc.raised
    /\ ~FLtInt(cc.total, min_score)
    /\ results' = Append(results, ResultEntry(user, candidates[idx], idx, cc))
    /\ scoredIdx' = scoredIdx \cup {idx}
    /\ idx' = idx + 1
    /\ UNCHANGED <<pc, filtered_count, deal_breaker_reasons, rejectedIdx, error, ret>>

\* lines 121-154: the candidate passed the filter and is scored, once
ScoreCandidate ==
    /\ PassesFilter
    /\ \E cc \in {CalculateCompatibility(weights, user, candidates[idx])} :
           \/ ScoringRaises(cc)
           \/ BelowMinScore(cc)
           \/ AppendResult(cc)
    /\ Frame

\* lines 156-167
Return ==
    /\ pc = "loop"
    /\ idx > Len(candidates)
    /\ \E sorted \in {SortResults(<<>>, results)} :
           /\ results' = sorted
           /\ ret' = Some([matches |-> SliceTo(sorted, limit),
                           total_candidates |-> Len(candidates) - 1,
                           filtered_by_deal_breakers |-> filtered_count,
                           stats |-> CalculateMatchStats(sorted)])
    /\ pc' = "done"
    /\ UNCHANGED <<idx, filtered_count, deal_breaker_reasons, scoredIdx, rejectedIdx, error>>
    /\ Frame

\* the module's singleton, matching_service = MatchingService(), in a call of
\* find_matches
Init ==
    /\ engine = "ready"
    /\ weightsArg = None
    /\ weights = WEIGHTS
    /\ user \in Pool
    /\ candidates \in SeqsUpTo(Pool, MaxCands)
    /\ \E a \in CallArgs : limit = a[1] /\ min_score = a[2]
    /\ pc = "loop"
    /\ hashSeed \in HashSeeds
    /\ previous = None
    /\ EnterLocals
    /\ job = None /\ now = 0
    /\ likes = <<>> /\ mutual_matches = <<>> /\ proc = <<>> /\ callers = <<>>

Next ==
    \/ SkipSelf
    \/ RejectedByUser
    \/ RejectedByCandidate
    \/ ScoreCandidate
    \/ Return

Spec == Init /\ [][Next]_vars

----------------------------------------------------------------------------
(* _calculate_compatibility on its own: the seven scorers and the weighted   *)
(* total applied to one pair of profiles                                     *)

\* profiles with one section absent, degenerate or out of range
PointBudget ==
    [WithPrefs(User(9), "budget", Some(BudgetModel(Some(2000), Some(2000))))
        EXCEPT !.languages = <<"English">>]
InvertedBudget == WithPrefs(User(10), "budget", Some(BudgetModel(Some(3000), Some(1000))))
OpenBudget == WithPrefs(User(11), "budget", Some(BudgetModel(None, None)))
ZeroBudget == WithPrefs(User(12), "budget", Some(BudgetModel(Some(0), Some(0))))
OtherCurrency ==
    WithPrefs(User(13), "budget", Some([currency |-> "EUR", min |-> Some(400), max |-> Some(700)]))
Ancient ==
    WithPrefs([User(14) EXCEPT !.age = Some(150), !.gender = Some("male")],
              "age_range", Some(<<18, 30>>))
Newborn ==
    WithPrefs([User(15) EXCEPT !.age = Some(0), !.gender = Some("female")],
              "age_range", Some(<<30, 20>>))
EmptyRoutine == WithTP(User(16), "daily_routine", Some(DailyRoutineModel))
WakeOnly == WithRoutine(User(17), "wake_up", Some(<<6, 45>>))
BadClock ==
    WithRoutine(WithRoutine(User(18), "wake_up", Some(<<7>>)), "sleep_time", Some(<<>>))
InWarsaw ==
    WithPrefs([User(19) EXCEPT !.location = Some("Warsaw Mokotow")], "location", Some("Warsaw"))
InRadom ==
    WithTP([User(20) EXCEPT !.location = Some("Radom")], "interests", <<"Hiking", "chess">>)
Hiker ==
    WithTP(WithPrefs([User(21) EXCEPT !.location = Some("Krakow"), !.languages = <<"Polish", "English">>],
                     "lease_duration_months", 6),
           "interests", <<"hiking", "Music", "chess">>)
Sociable ==
    LET a == WithTraits(User(22), "social_level", Some("very_social"))
        b == WithTraits(a, "guests_frequency", Some("often"))
        c == WithTraits(b, "noise_tolerance", Some("very_tolerant"))
        d == WithLifestyle(c, "ok_with_pets", Some(FALSE))
    IN  WithTP(d, "personality", <<"extrovert", "talkative">>)

ScoreProfiles ==
    Pool \cup {PointBudget, InvertedBudget, OpenBudget, ZeroBudget, OtherCurrency,
               Ancient, Newborn, EmptyRoutine, WakeOnly, BadClock, InWarsaw, InRadom,
               Hiker, Sociable}

InitScore ==
    /\ engine = "ready"
    /\ weightsArg = None
    /\ weights = WEIGHTS
    /\ user \in ScoreProfiles
    /\ candidates \in {<<c>> : c \in ScoreProfiles}
    /\ limit = 20
    /\ min_score = 0
    /\ pc = "score"
    /\ hashSeed \in HashSeeds
    /\ previous = None
    /\ EnterLocals
    /\ job = None /\ now = 0
    /\ likes = <<>> /\ mutual_matches = <<>> /\ proc = <<>> /\ callers = <<>>

\* lines 298-362: one call of _calculate_compatibility(user, candidate)
ScorePair ==
    /\ pc = "score"
    /\ \E cc \in {CalculateCompatibility(weights, user, candidates[1])} :
           /\ calc' = Some(cc)
           /\ error' = cc.error
           /\ pc' = IF cc.raised THEN "raised" ELSE "scored"
    /\ UNCHANGED <<engine, weightsArg, weights, user, candidates, limit, min_score, idx,
                   results, filtered_count, deal_breaker_reasons, scoredIdx, rejectedIdx, ret,
                   hashSeed, previous, jobVars, likeVars>>

NextScore == ScorePair

SpecScore == InitScore /\ [][NextScore]_vars

----------------------------------------------------------------------------
(* MatchingService(weights) followed by a call of find_matches               *)

\* weight tables a caller can pass
EmptyTable == [k \in {} |-> 0]
OneKeyTable == [k \in {"x"} |-> 100]
HalfTable == [k \in {"budget"} |-> 50]
ShortTable == [WEIGHTS EXCEPT !.interests = 0]
ExtraKeyTable == [k \in DOMAIN WEIGHTS \cup {"extra"} |-> IF k = "extra" THEN 0 ELSE WEIGHTS[k]]
WeightArgs ==
    {None, Some(WEIGHTS), Some(EmptyTable), Some(OneKeyTable), Some(HalfTable),
     Some(ShortTable), Some(SwappedWeights), Some(ExtraKeyTable)}

\* bool(weights) of the Optional dict: None and {} are falsy
TruthyTable(o) == IsSome(o) /\ DOMAIN Val(o) # {}

\* line 71: weights or WEIGHTS
WeightsOr(o) == IF TruthyTable(o) THEN Val(o) ELSE WEIGHTS

InitWeights ==
    /\ engine = "new"
    /\ weightsArg \in WeightArgs
    /\ weights = EmptyTable
    /\ user \in Pool
    /\ candidates \in SeqsUpTo(Pool, 1)
    /\ limit = 20
    /\ min_score \in MinScores
    /\ pc = "init"
    /\ hashSeed \in HashSeeds
    /\ previous = None
    /\ EnterLocals
    /\ job = None /\ now = 0
    /\ likes = <<>> /\ mutual_matches = <<>> /\ proc = <<>> /\ callers = <<>>

\* lines 69-77 when the sum is 100: the engine exists and find_matches is called
ConstructOk ==
    /\ engine = "new"
    /\ \E w \in {WeightsOr(weightsArg)} :
           /\ SumValues(w, DOMAIN w) = 100
           /\ weights' = w
    /\ engine' = "ready"
    /\ pc' = "loop"
    /\ UNCHANGED <<weightsArg, user, candidates, limit, min_score, idx, results,
                   filtered_count, deal_breaker_reasons, scoredIdx, rejectedIdx, error,
                   ret, calc, hashSeed, previous, jobVars, likeVars>>

\* lines 69-77 when the sum is not 100: ValueError, no engine
ConstructRejected ==
    /\ engine = "new"
    /\ \E w \in {WeightsOr(weightsArg)} :
           /\ SumValues(w, DOMAIN w) # 100
           /\ weights' = w
    /\ engine' = "rejected"
    /\ error' = "ValueError"
    /\ pc' = "rejected"
    /\ UNCHANGED <<weightsArg, user, candidates, limit, min_score, idx, results,
                   filtered_count, deal_breaker_reasons, scoredIdx, rejectedIdx,
                   ret, calc, hashSeed, previous, jobVars, likeVars>>

NextWeights ==
    \/ ConstructOk
    \/ ConstructRejected
    \/ SkipSelf
    \/ RejectedByUser
    \/ RejectedByCandidate
    \/ ScoreCandidate
    \/ Return

SpecWeights == InitWeights /\ [][NextWeights]_vars

----------------------------------------------------------------------------
(* Properties *)

InRange(x) == FGeInt(x, 0) /\ FLe(x, FInt(100))

\* the candidates find_matches has been through, the seeker's own record apart
Visited == {k \in 1..Len(candidates) : k < idx /\ candidates[k].id # user.id}

\* C1: for a pair of profiles whose optional sections are each present or
\* absent, every one of the seven category scorers returns a score and none
\* raises.
ScorersNeverRaise ==
    IsSome(calc) => \A cat \in SeqToSet(Categories) : ~Val(calc).by_category[cat].raised

\* C2: find_matches never lets an exception of the scoring of one candidate
\* out: the call goes on to the other candidates and returns a result.
FindMatchesNeverRaises == pc # "raised"

\* C3: with the default weights every pair of profiles gets seven category
\* scores and a weighted total, each in [0, 100].
ScoresAndTotalInRange ==
    IsSome(calc) =>
        /\ ~Val(calc).raised
        /\ \A cat \in SeqToSet(Categories) : InRange(Val(calc).by_category[cat].score)
        /\ InRange(Val(calc).total)

\* C4: the deal-breaker filter excludes a candidate exactly when it would
\* exclude the seeker in the call with the two roles exchanged, i.e. when the
\* check made first in that call (the candidate's own rules against the
\* seeker) or the one made second (the seeker's rules against the candidate)
\* fires.
ExcludedWithRolesExchanged(k) ==
    \/ IsSome(CheckDealBreakers(candidates[k], user))
    \/ IsSome(CheckDealBreakers(user, candidates[k]))
ExclusionIsSymmetric ==
    \A k \in Visited :
        /\ k \in rejectedIdx <=> ExcludedWithRolesExchanged(k)
        /\ k \in rejectedIdx =>
              deal_breaker_reasons[candidates[k].id].mutual
                  = ~IsSome(CheckDealBreakers(user, candidates[k]))
\* a candidate excluded by a rule of its own, none of the seeker's rules firing
ExcludedByCandidateRule ==
    \E k \in rejectedIdx :
        /\ ~IsSome(CheckDealBreakers(user, candidates[k]))
        /\ IsSome(CheckDealBreakers(candidates[k], user))

\* C5: every entry of the results, and every match returned, is of a
\* candidate that passed the deal-breaker check in both directions; a
\* candidate excluded in either direction is never scored and has no entry.
PassedBothWays(k) ==
    /\ ~IsSome(CheckDealBreakers(user, candidates[k]))
    /\ ~IsSome(CheckDealBreakers(candidates[k], user))
OnlyCompatibleScored ==
    /\ \A k \in scoredIdx : PassedBothWays(k)
    /\ \A n \in 1..Len(results) :
          /\ results[n].pos \in scoredIdx
          /\ PassedBothWays(results[n].pos)
          /\ results[n].user_id = candidates[results[n].pos].id
    /\ \A k \in 1..Len(candidates) :
          ~PassedBothWays(k) =>
              /\ k \notin scoredIdx
              /\ \A n \in 1..Len(results) : results[n].pos # k
    /\ IsSome(ret) =>
          \A n \in 1..Len(Val(ret).matches) : PassedBothWays(Val(ret).matches[n].pos)
\* a call that returned a match after excluding another candidate
ReturnedWithOneExcluded ==
    /\ pc = "done"
    /\ rejectedIdx # {}
    /\ Len(Val(ret).matches) >= 1

\* C6: the tier of every result is the tier of its reported one-decimal
\* score: perfect from 85.0, great from 70.0, good from 55.0, fair from 40.0,
\* poor below.
TierOfReported(tenths) ==
    IF tenths >= 10 * TierPerfect THEN "perfect"
    ELSE IF tenths >= 10 * TierGreat THEN "great"
    ELSE IF tenths >= 10 * TierGood THEN "good"
    ELSE IF tenths >= 10 * TierFair THEN "fair"
    ELSE "poor"
TierMatchesReportedScore ==
    \A n \in 1..Len(results) :
        results[n].match_tier = TierOfReported(results[n].compatibility_score)

\* C7: the overlap ratio computed for two identical point budgets (min = max,
\* the same value and currency on both sides) is 1.
IdenticalPointBudgets(u, c) ==
    /\ IsSome(GetBudget(u))
    /\ IsSome(GetBudget(c))
    /\ GetBudget(u) = GetBudget(c)
    /\ Val(GetBudget(u)).min = Val(GetBudget(u)).max
PointBudgetsOverlapFully ==
    (IsSome(calc) /\ IdenticalPointBudgets(user, candidates[1]))
        => Val(calc).by_category.budget.overlap = Some(FInt(1))

\* C8: construction fails for every supplied weight table whose values do
\* not sum to 100, and succeeds for the default table and for every supplied
\* table whose values sum to 100.
SuppliedSum == SumValues(Val(weightsArg), DOMAIN Val(weightsArg))
ConstructionChecksTheSum ==
    engine # "new" =>
        (engine = "ready" <=> (~IsSome(weightsArg) \/ SuppliedSum = 100))

\* C9: on an engine the constructor accepted, no call of find_matches fails
\* on account of the weight table.
NoWeightErrorAfterConstruction == engine = "ready" => error # "KeyError"

\* C10: the total of every scored candidate is the sum of its seven category
\* scores times 20, 25, 15, 12, 10, 10 and 8 hundredths, and both the
\* compatibility_score and the breakdown's totalScore of its entry are that
\* total rounded to one decimal.
DocumentedTotal(r) ==
    FSum(<< FScale(r.budget.score, 20, 100), FScale(r.lifestyle.score, 25, 100),
            FScale(r.personality.score, 15, 100), FScale(r.schedule.score, 12, 100),
            FScale(r.location.score, 10, 100), FScale(r.preferences.score, 10, 100),
            FScale(r.interests.score, 8, 100) >>)
EntryHasDocumentedTotal(e) ==
    \E t \in {Round1(DocumentedTotal(ScorerResults(user, candidates[e.pos])))} :
        /\ e.compatibility_score = t
        /\ e.score_breakdown.totalScore = t
TotalOf(k) == CalculateCompatibility(weights, user, candidates[k]).total
Qualifying ==
    {k \in 1..Len(candidates) :
        /\ candidates[k].id # user.id
        /\ PassedBothWays(k)
        /\ ~FLtInt(TotalOf(k), min_score)}
ReturnedPositions == {Val(ret).matches[n].pos : n \in 1..Len(Val(ret).matches)}
LimitAndMinScoreRespected ==
    (pc = "done" /\ limit >= 0) =>
        \E q \in {Qualifying}, m \in {Val(ret).matches} :
            /\ Len(m) = Min2(limit, Cardinality(q))
            /\ Cardinality(ReturnedPositions) = Len(m)
            /\ ReturnedPositions \subseteq q
            /\ \A n \in 1..Len(m) : m[n].compatibility_score = Round1(TotalOf(m[n].pos))
            /\ \A n \in 1..Len(m), k \in q \ ReturnedPositions :
                  m[n].compatibility_score >= Round1(TotalOf(k))
            /\ \A n \in 1..Len(m) - 1 :
                  m[n].compatibility_score >= m[n + 1].compatibility_score
            /\ min_score > 100 => m = <<>>
            /\ Val(ret).total_candidates = Len(candidates) - 1
\* limit 1 with two qualifying candidates, the better one later in the list
BestOfTwoReturned ==
    /\ pc = "done"
    /\ limit = 1
    /\ Len(results) = 2
    /\ Len(Val(ret).matches) = 1
    /\ Val(ret).matches[1].pos = 2
    /\ results[2].compatibility_score < results[1].compatibility_score

\* C12: a call with an empty candidate list returns empty matches and zero
\* counts: total_candidates 0, filtered_by_deal_breakers 0, statistics all 0.
EmptyListGivesZeroCounts ==
    (pc = "done" /\ candidates = <<>>) =>
        /\ Val(ret).matches = <<>>
        /\ Val(ret).total_candidates = 0
        /\ Val(ret).filtered_by_deal_breakers = 0
        /\ \A f \in DOMAIN Val(ret).stats : Val(ret).stats[f] = 0

----------------------------------------------------------------------------
(* Two calls of find_matches on the module's engine, the second in the same  *)
(* process or in a process started after the first call                      *)

CallPool == {Hiker, InRadom, Early, Late}
CallLists == SeqsUpTo(CallPool, 2)

\* find_matches as a function of its arguments on an engine with the weight
\* table w: the loop of lines 102-154 from position k on, None when the
\* scoring of a candidate raises
RECURSIVE LoopFrom(_, _, _, _, _, _)
LoopFromRec(w, u, cs, min, k, acc) ==
    IF k > Len(cs) THEN Some(acc)
    ELSE IF IsSelf(u, cs[k]) THEN LoopFrom(w, u, cs, min, k + 1, acc)
    ELSE IF IsSome(UserRejection(u, cs[k])) \/ IsSome(CandidateRejection(u, cs[k]))
    THEN LoopFrom(w, u, cs, min, k + 1, [acc EXCEPT !.filtered_count = @ + 1])
    ELSE Strict(CalculateCompatibility(w, u, cs[k]), LAMBDA cc :
            IF cc.raised THEN None
            ELSE IF FLtInt(cc.total, min) THEN LoopFrom(w, u, cs, min, k + 1, acc)
            ELSE LoopFrom(w, u, cs, min, k + 1,
                          [acc EXCEPT !.results = Append(@, ResultEntry(u, cs[k], k, cc))]))
LoopFrom(w, u, cs, min, k, acc) ==
    Strict2(k, acc, LAMBDA k1, acc1 : LoopFromRec(w, u, cs, min, k1, acc1))

\* lines 98-100: the locals a call starts with
LocalsKept ==
    [results |-> results, filtered_count |-> filtered_count,
     deal_breaker_reasons |-> deal_breaker_reasons]
LocalsAtEntry == [results |-> <<>>, filtered_count |-> 0, deal_breaker_reasons |-> <<>>]

\* what find_matches(u, cs, lim, min) returns on a newly constructed engine:
\* None when it raises
ReturnOfFreshEngine(u, cs, lim, min) ==
    Strict(LoopFrom(WEIGHTS, u, cs, min, 1,
                    [results |-> <<>>, filtered_count |-> 0]), LAMBDA end :
        IF end = None THEN None
        ELSE Strict(SortResults(<<>>, Val(end).results), LAMBDA sorted :
                Some([matches |-> SliceTo(sorted, lim),
                      total_candidates |-> Len(cs) - 1,
                      filtered_by_deal_breakers |-> Val(end).filtered_count,
                      stats |-> CalculateMatchStats(sorted)])))

InitCalls ==
    /\ engine = "ready"
    /\ weightsArg = None
    /\ weights = WEIGHTS
    /\ user \in CallPool
    /\ candidates \in CallLists
    /\ limit = 20
    /\ min_score = 0
    /\ pc = "loop"
    /\ hashSeed \in HashSeeds
    /\ previous = None
    /\ EnterLocals
    /\ job = None /\ now = 0
    /\ likes = <<>> /\ mutual_matches = <<>> /\ proc = <<>> /\ callers = <<>>

\* the call so far, as the history keeps it
ThisCall ==
    [user |-> user, candidates |-> candidates, limit |-> limit, min_score |-> min_score,
     pc |-> pc, ret |-> ret, hashSeed |-> hashSeed, appended |-> Len(results)]

\* a second call of find_matches, with any arguments, entered when the first
\* has returned or raised, or while the first is anywhere in its loop (another
\* thread): the locals of lines 98-100 belong to the call, the engine is all
\* the two calls share.  The variables follow the second call from here on.
CallWith(u, cs) ==
    /\ pc \in {"loop", "done", "raised"}
    /\ previous = None
    /\ previous' = Some(ThisCall)
    /\ user' = u
    /\ candidates' = cs
    /\ \E locals \in {LocalsAtEntry} :
           /\ results' = locals.results
           /\ filtered_count' = locals.filtered_count
           /\ deal_breaker_reasons' = locals.deal_breaker_reasons
    /\ idx' = 1
    /\ scoredIdx' = {}
    /\ rejectedIdx' = {}
    /\ error' = ""
    /\ ret' = None
    /\ pc' = "loop"
    /\ UNCHANGED <<engine, weightsArg, weights, limit, min_score, calc, jobVars, likeVars>>

\* the second call in the process of the first
CallAgain ==
    /\ \E u \in CallPool, cs \in CallLists : CallWith(u, cs)
    /\ hashSeed' = hashSeed

\* the second call in another process (a restart, another worker): the
\* module is imported anew, the strings hash under the new process's seed
CallAfterRestart ==
    /\ \E u \in CallPool, cs \in CallLists : CallWith(u, cs)
    /\ hashSeed' \in HashSeeds

NextCalls ==
    \/ SkipSelf
    \/ RejectedByUser
    \/ RejectedByCandidate
    \/ ScoreCandidate
    \/ Return
    \/ CallAgain
    \/ CallAfterRestart

SpecCalls == InitCalls /\ [][NextCalls]_vars

\* C13: two calls with the same seeker, candidate list, limit and min_score
\* return the same result: the same matches in the same order, with the same
\* scores, tiers, explanations and shared_interests/shared_languages lists.
SameArguments ==
    /\ IsSome(previous)
    /\ Val(previous).user = user
    /\ Val(previous).candidates = candidates
    /\ Val(previous).limit = limit
    /\ Val(previous).min_score = min_score
SameArgumentsSameResult ==
    (SameArguments /\ pc = "done" /\ Val(previous).pc = "done") => ret = Val(previous).ret

\* ---------------------------------------------------------------------------
\* C14  A candidate whose id equals the seeker's id never appears among the
\*      matches and is never counted as filtered, however often it occurs in
\*      the list and whatever its own deal-breakers say.
SelfPositions == {k \in 1..Len(candidates) : candidates[k].id = user.id}
SelfNeverMatchedNorFiltered ==
    /\ \A n \in 1..Len(results) : results[n].user_id # user.id
    /\ SelfPositions \cap (rejectedIdx \cup scoredIdx) = {}
    /\ user.id \notin DOMAIN deal_breaker_reasons
    /\ filtered_count <= Cardinality({k \in 1..Len(candidates) : k < idx} \ SelfPositions)
    /\ pc = "done" =>
          /\ \A n \in 1..Len(Val(ret).matches) : Val(ret).matches[n].user_id # user.id
          /\ Val(ret).filtered_by_deal_breakers
                 <= Cardinality((1..Len(candidates)) \ SelfPositions)

\* the seeker's own record twice in the list, with a deal-breaker the seeker
\* violates, and the call has returned
SelfTwiceWithDealBreaker ==
    /\ pc = "done"
    /\ Len(candidates) = 2
    /\ SelfPositions = {1, 2}
    /\ IsSome(CheckDealBreakers(candidates[1], user))
    /\ Val(ret).matches = <<>>
    /\ Val(ret).filtered_by_deal_breakers = 0

\* ---------------------------------------------------------------------------
\* C15  filteredByDealBreakers is the number of non-self candidates for which
\*      the deal-breaker check fires in at least one direction, each counted
\*      once even when both directions fire; a seeker with noSmokers and a
\*      single smoking candidate gives no match and a count of 1.
FiresEitherWay(k) ==
    \/ IsSome(CheckDealBreakers(user, candidates[k]))
    \/ IsSome(CheckDealBreakers(candidates[k], user))
ExcludedPositions(upTo) ==
    {k \in 1..Len(candidates) :
        k < upTo /\ candidates[k].id # user.id /\ FiresEitherWay(k)}
FilteredCountsExcludedOnce ==
    /\ pc = "loop" => filtered_count = Cardinality(ExcludedPositions(idx))
    /\ pc = "done" =>
          /\ Val(ret).filtered_by_deal_breakers
                 = Cardinality(ExcludedPositions(Len(candidates) + 1))
          /\ (user = Seeker /\ candidates = <<Smoker>>) =>
                 /\ Val(ret).matches = <<>>
                 /\ Val(ret).filtered_by_deal_breakers = 1

\* a returned call in which one candidate is excluded in both directions, and
\* it is counted once
BothWaysCountedOnce ==
    /\ pc = "done"
    /\ Len(candidates) = 2
    /\ \E k \in 1..2 :
          /\ candidates[k].id # user.id
          /\ IsSome(CheckDealBreakers(user, candidates[k]))
          /\ IsSome(CheckDealBreakers(candidates[k], user))
          /\ ExcludedPositions(3) = {k}
    /\ Val(ret).filtered_by_deal_breakers = 1

\* ---------------------------------------------------------------------------
\* C16  In every returned match the explanations are all the entries the seven
\*      scorers produced (none dropped, none merged), positive before neutral
\*      before negative, within one impact class in non-increasing score
\*      order, and entries of equal impact and score in the order of emission
\*      (budget, lifestyle, personality, schedule, location, preferences,
\*      interests).
EmittedExplanations(u, c) ==
    Strict(ScorerResults(u, c), LAMBDA r :
        r.budget.explanations \o r.lifestyle.explanations \o r.personality.explanations
        \o r.schedule.explanations \o r.location.explanations
        \o r.preferences.explanations \o r.interests.explanations)
ImpactRank(x) ==
    IF x.impact = "positive" THEN 0 ELSE IF x.impact = "neutral" THEN 1 ELSE 2
SameKey(x, y) == x.impact = y.impact /\ x.score = y.score
InDocumentedOrder(e, emitted) ==
    /\ Len(e) = Len(emitted)
    /\ \A i \in 1..Len(e) : \A j \in 1..Len(e) :
          i < j => \/ ImpactRank(e[i]) < ImpactRank(e[j])
                   \/ ImpactRank(e[i]) = ImpactRank(e[j]) /\ FLe(e[j].score, e[i].score)
    /\ \A i \in 1..Len(emitted) :
          LET Same(y) == SameKey(emitted[i], y)
          IN  SelectSeq(e, Same) = SelectSeq(emitted, Same)
ExplanationsInDocumentedOrder ==
    pc = "done" =>
        \A n \in 1..Len(Val(ret).matches) :
            LET m == Val(ret).matches[n]
            IN  InDocumentedOrder(m.explanations,
                                  EmittedExplanations(user, candidates[m.pos]))

\* a returned match whose explanations have all three impact classes, two
\* entries of one class with different scores emitted in ascending order, and
\* two entries of equal impact and score
ThreeClassesAndATie ==
    /\ pc = "done"
    /\ \E n \in 1..Len(Val(ret).matches) :
          LET m == Val(ret).matches[n]
              e == m.explanations
              emitted == EmittedExplanations(user, candidates[m.pos])
          IN  /\ {e[i].impact : i \in 1..Len(e)} = {"positive", "neutral", "negative"}
              /\ \E i \in 1..Len(e) : \E j \in 1..Len(e) :
                    i < j /\ SameKey(e[i], e[j]) /\ e[i].category # e[j].category
              /\ \E i \in 1..Len(emitted) : \E j \in 1..Len(emitted) :
                    /\ i < j
                    /\ emitted[i].impact = emitted[j].impact
                    /\ FLt(emitted[i].score, emitted[j].score)
              /\ e # emitted

\* ---------------------------------------------------------------------------
\* C17  The seeker (28, PLN 1500-3000, clean; noSmokers, noParties,
\*      quietHoursRequired) and the candidate (26, PLN 1200-2500, very clean,
\*      non-smoker, quiet early bird): the pair survives the deal-breaker
\*      filter, the total is at least 70 (tier great or perfect) and the
\*      explanations hold a positive Budget entry and a positive cleanliness
\*      entry.
WorkedExampleReturned ==
    /\ pc = "done"
    /\ user = Seeker
    /\ candidates = <<Tidy>>
    /\ limit = 20
    /\ min_score = 0
WorkedExampleIsAGreatMatch ==
    WorkedExampleReturned =>
        /\ Val(ret).filtered_by_deal_breakers = 0
        /\ Len(Val(ret).matches) = 1
        /\ LET m == Val(ret).matches[1]
               e == m.explanations
           IN  /\ m.compatibility_score >= 10 * TierGreat
               /\ m.match_tier \in {"great", "perfect"}
               /\ \E i \in 1..Len(e) :
                     e[i].category = "Budget" /\ e[i].impact = "positive"
               /\ \E i \in 1..Len(e) :
                     /\ e[i].impact = "positive"
                     /\ e[i].reason = "Similar cleanliness standards"

\* ---------------------------------------------------------------------------
\* C18  A call of find_matches leaves the engine's weight table, the seeker,
\*      the candidates and the order of the candidate list as they were, and
\*      the shared engine keeps nothing of a call: whatever call ran before or
\*      is under way, a call ends as the same call ends on a newly constructed
\*      engine.
EndsAsOnFreshEngine ==
    /\ engine = "ready"
    /\ weights = WEIGHTS
    /\ pc = "done" => ret = ReturnOfFreshEngine(user, candidates, limit, min_score)
    /\ pc = "raised" => ReturnOfFreshEngine(user, candidates, limit, min_score) = None
StepOfACall == previous' = previous
ArgumentsUntouched ==
    StepOfACall => /\ weights' = weights
                   /\ engine' = engine
                   /\ user' = user
                   /\ candidates' = candidates
----------------------------------------------------------------------------
(* ScrapeJob of pokojowo-scraper: one job object, its three state methods   *)
(* and the clock they read                                                   *)

\* the clock values of a run; datetime.utcnow() is taken as never going back
MaxClock == 3
\* the messages mark_failed is called with
ErrorMessages == {"", "Test error"}

\* ScrapeJob(job_id=..., site=..., city=...): the field defaults of lines 43-46;
\* op is history, the method called last
NewScrapeJob ==
    [status |-> "pending", started_at |-> None, completed_at |-> None,
     error_message |-> None, op |-> "new"]

\* lines 58-64; a datetime is always truthy, so the tests of lines 61 and 63
\* are tests for None
DurationSeconds(j, t) ==
    IF ~IsSome(j.started_at) THEN None
    ELSE LET end_time == IF IsSome(j.completed_at) THEN Val(j.completed_at) ELSE t
         IN  Some(end_time - Val(j.started_at))

\* the matching engine takes no part
MatchingIdle ==
    /\ engine = "ready"
    /\ weightsArg = None
    /\ weights = WEIGHTS
    /\ user = Blank
    /\ candidates = <<>>
    /\ limit = 20
    /\ min_score = 0
    /\ pc = "idle"
    /\ hashSeed = 0
    /\ previous = None
    /\ EnterLocals

InitJob ==
    /\ MatchingIdle
    /\ job = Some(NewScrapeJob)
    /\ now = 0
    /\ likes = <<>> /\ mutual_matches = <<>> /\ proc = <<>> /\ callers = <<>>

\* time passes between two calls
Tick ==
    /\ IsSome(job)
    /\ now < MaxClock
    /\ now' = now + 1
    /\ UNCHANGED <<job, matchingVars, likeVars>>

\* lines 66-69
MarkStarted ==
    /\ IsSome(job)
    /\ job' = Some([Val(job) EXCEPT !.status = "running", !.started_at = Some(now),
                                    !.op = "mark_started"])
    /\ UNCHANGED <<now, matchingVars, likeVars>>

\* lines 71-74
MarkCompleted ==
    /\ IsSome(job)
    /\ job' = Some([Val(job) EXCEPT !.status = "completed", !.completed_at = Some(now),
                                    !.op = "mark_completed"])
    /\ UNCHANGED <<now, matchingVars, likeVars>>

\* lines 76-80
MarkFailed ==
    /\ IsSome(job)
    /\ \E err \in ErrorMessages :
           job' = Some([Val(job) EXCEPT !.status = "failed", !.completed_at = Some(now),
                                        !.error_message = Some(err), !.op = "mark_failed"])
    /\ UNCHANGED <<now, matchingVars, likeVars>>

NextJob ==
    \/ Tick
    \/ MarkStarted
    \/ MarkCompleted
    \/ MarkFailed

SpecJob == InitJob /\ [][NextJob]_vars

\* C19: a new ScrapeJob is pending with no duration; from any state
\* mark_started gives running with started_at set, mark_completed gives
\* completed with completed_at set, mark_failed(error) gives failed with
\* completed_at set and the message stored; once the job has been started,
\* duration_seconds is defined and not negative.
MethodsSetTheirFields ==
    LET j == Val(job)
    IN  /\ j.op = "new" => j.status = "pending" /\ DurationSeconds(j, now) = None
        /\ j.op = "mark_started" => j.status = "running" /\ IsSome(j.started_at)
        /\ j.op = "mark_completed" => j.status = "completed" /\ IsSome(j.completed_at)
        /\ j.op = "mark_failed" =>
               /\ j.status = "failed"
               /\ IsSome(j.completed_at)
               /\ IsSome(j.error_message)
StartedJobHasDuration ==
    LET j == Val(job)
    IN  IsSome(j.started_at) =>
            /\ IsSome(DurationSeconds(j, now))
            /\ Val(DurationSeconds(j, now)) >= 0
ScrapeJobAsDocumented == MethodsSetTheirFields /\ StartedJobHasDuration

----------------------------------------------------------------------------
(* POST /likes/{user_id} by two users for each other: the endpoint          *)
(* like_user and LikesService.like_user, one step per awaited database      *)
(* operation, the two requests interleaved at those operations              *)

Requests == {1, 2}
Other(i) == 3 - i

\* the users of the two requests: a profile and User.is_profile_complete
LikePool == {Seeker, Tidy, Smoker, Early, Blank}
Callers ==
    {<<[profile |-> a, is_profile_complete |-> ca], [profile |-> b, is_profile_complete |-> cb]>> :
        a \in LikePool, b \in LikePool, ca \in BOOLEAN, cb \in BOOLEAN}

LikerId(i) == callers[i].profile.id
LikedUserId(i) == callers[Other(i)].profile.id

\* Like(...): lines 77-82 of the service, the fields of app/models/like.py
Like(liker_id, liked_user_id, status, compatibility_score) ==
    [liker_id |-> liker_id, liked_user_id |-> liked_user_id, status |-> status,
     compatibility_score |-> compatibility_score]

\* Like.find_one({"likerId": a, "likedUserId": b}): the position of the
\* document, None when there is none
FindLike(a, b, statuses) ==
    LET ks == {k \in DOMAIN likes : /\ likes[k].liker_id = a
                                    /\ likes[k].liked_user_id = b
                                    /\ likes[k].status \in statuses}
    IN  IF ks = {} THEN None ELSE Some(CHOOSE k \in ks : \A m \in ks : k <= m)

\* x or y for two Optional[float]
ScoreOr(x, y) == IF TruthyNum(x) THEN x ELSE y

\* endpoint lines 41-50: the score stored with the like; "raised" when
\* find_matches raises
ScoreForStorage(i) ==
    IF callers[i].is_profile_complete /\ callers[Other(i)].is_profile_complete
    THEN Strict(ReturnOfFreshEngine(callers[i].profile, <<callers[Other(i)].profile>>, 1, 0),
                LAMBDA r :
                    IF r = None THEN "raised"
                    ELSE IF Val(r).matches # <<>>
                    THEN Some(Val(r).matches[1].compatibility_score)
                    ELSE None)
    ELSE None

NewRequest ==
    [pc |-> "new", compatibility_score |-> None, is_mutual |-> FALSE,
     reciprocal_like |-> None, result |-> ""]

\* the likes collection before the requests: empty, or the first user's like
\* from an earlier request, still pending
EarlierLikes(cs) == {<<>>, <<Like(cs[1].profile.id, cs[2].profile.id, "pending", None)>>}

InitLikes ==
    /\ MatchingIdle
    /\ job = None /\ now = 0
    /\ callers \in {cs \in Callers : cs[1].profile.id # cs[2].profile.id}
    /\ likes \in EarlierLikes(callers)
    /\ mutual_matches = <<>>
    /\ proc = [i \in Requests |-> NewRequest]

LikesFrame == UNCHANGED <<callers, matchingVars, jobVars>>

\* endpoint lines 26-38: the self test, then await User.get(user_id); both
\* users exist
GetTargetUser ==
    \E i \in Requests :
        /\ proc[i].pc = "new"
        /\ proc' = [proc EXCEPT ![i].pc =
                       IF LikerId(i) = LikedUserId(i) THEN "http_400" ELSE "got_target"]
        /\ UNCHANGED <<likes, mutual_matches>>
        /\ LikesFrame

\* endpoint lines 41-55 and service lines 49-65: the score, the call of the
\* service and its first query
FindExistingLike ==
    \E i \in Requests :
        /\ proc[i].pc = "got_target"
        /\ \E score \in {ScoreForStorage(i)} :
               IF score = "raised"
               THEN proc' = [proc EXCEPT ![i].pc = "raised"]
               ELSE IF IsSome(FindLike(LikerId(i), LikedUserId(i), {"pending", "mutual", "declined"}))
               THEN proc' = [proc EXCEPT ![i].pc = "returned", ![i].result = "already_liked",
                                         ![i].compatibility_score = score]
               ELSE proc' = [proc EXCEPT ![i].pc = "find_reciprocal",
                                         ![i].compatibility_score = score]
        /\ UNCHANGED <<likes, mutual_matches>>
        /\ LikesFrame

\* service lines 68-74
FindReciprocalLike ==
    \E i \in Requests :
        /\ proc[i].pc = "find_reciprocal"
        /\ \E found \in {FindLike(LikedUserId(i), LikerId(i), {"pending"})} :
               proc' = [proc EXCEPT
                           ![i].pc = "insert_like",
                           ![i].is_mutual = IsSome(found),
                           ![i].reciprocal_like =
                               IF IsSome(found)
                               THEN Some([at |-> Val(found), doc |-> likes[Val(found)]])
                               ELSE None]
        /\ UNCHANGED <<likes, mutual_matches>>
        /\ LikesFrame

\* service lines 77-90
InsertLike ==
    \E i \in Requests :
        /\ proc[i].pc = "insert_like"
        /\ likes' = Append(likes, Like(LikerId(i), LikedUserId(i),
                                       IF proc[i].is_mutual THEN "mutual" ELSE "pending",
                                       proc[i].compatibility_score))
        /\ proc' = [proc EXCEPT ![i].pc = IF proc[i].is_mutual THEN "save_reciprocal"
                                                                ELSE "notify",
                                ![i].result = "liked"]
        /\ UNCHANGED mutual_matches
        /\ LikesFrame

\* service lines 93-96: the document read at line 68, with its status changed,
\* is written back
SaveReciprocalLike ==
    \E i \in Requests :
        /\ proc[i].pc = "save_reciprocal"
        /\ LET r == Val(proc[i].reciprocal_like)
           IN  likes' = [likes EXCEPT ![r.at] = [r.doc EXCEPT !.status = "mutual"]]
        /\ proc' = [proc EXCEPT ![i].pc = "insert_match"]
        /\ UNCHANGED mutual_matches
        /\ LikesFrame

\* service lines 99-105
InsertMutualMatch ==
    \E i \in Requests :
        /\ proc[i].pc = "insert_match"
        /\ mutual_matches' = Append(mutual_matches,
               [user_1_id |-> Min2(LikerId(i), LikedUserId(i)),
                user_2_id |-> Max2(LikerId(i), LikedUserId(i)),
                status |-> "active",
                compatibility_score |->
                    ScoreOr(proc[i].compatibility_score,
                            Val(proc[i].reciprocal_like).doc.compatibility_score)])
        /\ proc' = [proc EXCEPT ![i].pc = "notify"]
        /\ UNCHANGED likes
        /\ LikesFrame

\* service lines 107-128: the user is read for the answer, the notifications
\* are sent (their failures are caught), the result is returned
NotifyAndReturn ==
    \E i \in Requests :
        /\ proc[i].pc = "notify"
        /\ proc' = [proc EXCEPT ![i].pc = "returned"]
        /\ UNCHANGED <<likes, mutual_matches>>
        /\ LikesFrame

NextLikes ==
    \/ GetTargetUser
    \/ FindExistingLike
    \/ FindReciprocalLike
    \/ InsertLike
    \/ SaveReciprocalLike
    \/ InsertMutualMatch
    \/ NotifyAndReturn

SpecLikes == InitLikes /\ [][NextLikes]_vars

\* C20: when each of the two users has called like_user on the other, in
\* either order or interleaved at the database operations, and both calls have
\* returned, both Like records are mutual and an active MutualMatch of the two
\* exists.
BothReturned == \A i \in Requests : proc[i].pc = "returned"
LikeRecords(i) ==
    {k \in DOMAIN likes : likes[k].liker_id = LikerId(i) /\ likes[k].liked_user_id = LikedUserId(i)}
ActiveMatchExists ==
    \E k \in DOMAIN mutual_matches :
        /\ mutual_matches[k].status = "active"
        /\ {mutual_matches[k].user_1_id, mutual_matches[k].user_2_id}
               = {LikerId(1), LikerId(2)}
BothLikesGiveAMutualMatch ==
    BothReturned =>
        /\ \A i \in Requests :
              /\ LikeRecords(i) # {}
              /\ \A k \in LikeRecords(i) : likes[k].status = "mutual"
        /\ ActiveMatchExists

----------------------------------------------------------------------------
(* One call of _check_deal_breakers(rule owner, other) on its own            *)

\* the deal-breakers of a rule owner: every combination of the five flags with
\* absent, zero and ordinary values of the four limits
RuleSets ==
    [no_smokers : BOOLEAN, no_pets : BOOLEAN, no_parties : BOOLEAN,
     same_gender_only : BOOLEAN, quiet_hours_required : BOOLEAN,
     min_age : {None, Some(30)}, max_age : {None, Some(0), Some(25)},
     min_cleanliness : {None, Some("clean")},
     max_budget : {None, Some(0), Some(1500)}]

RuleOwners ==
    {[User(1) EXCEPT !.gender = Some("female"),
                     !.tenant_profile = Some([TenantProfileModel EXCEPT !.deal_breakers = Some(db)])] :
        db \in RuleSets}
    \cup {User(1), [User(1) EXCEPT !.tenant_profile = Some(TenantProfileModel)]}

\* the profiles the rules are applied to: each breaks one rule, or comes near
Smokes == WithLifestyle(User(2), "smokes", Some(TRUE))
HasPets == WithLifestyle(User(2), "has_pets", Some(TRUE))
Man == [User(2) EXCEPT !.gender = Some("male")]
Woman == [User(2) EXCEPT !.gender = Some("female"), !.age = Some(28)]
Aged20 == [User(2) EXCEPT !.age = Some(20)]
Aged40 == [User(2) EXCEPT !.age = Some(40)]
Aged0 == [User(2) EXCEPT !.age = Some(0)]
Messy == WithTraits(User(2), "cleanliness", Some("messy"))
VeryClean == WithTraits(User(2), "cleanliness", Some("very_clean"))
FromTwoThousand == WithPrefs(User(2), "budget", Some(BudgetModel(Some(2000), Some(3000))))
FromZero == WithPrefs(User(2), "budget", Some(BudgetModel(Some(0), Some(1000))))
LoudNightOwl ==
    WithTP(WithTraits(User(2), "noise_tolerance", Some("tolerant")), "personality", <<"night_owl">>)
PlainNightOwl == WithTP(User(2), "personality", <<"night_owl">>)
Host ==
    WithTraits(WithTraits(User(2), "guests_frequency", Some("often")), "social_level", Some("social"))
OftenGuests == WithTraits(User(2), "guests_frequency", Some("often"))
BreaksAll ==
    LET a == WithLifestyle(WithLifestyle([User(2) EXCEPT !.gender = Some("male"), !.age = Some(40)],
                                         "smokes", Some(TRUE)), "has_pets", Some(TRUE))
        b == WithTraits(WithTraits(WithTraits(WithTraits(a, "cleanliness", Some("messy")),
                 "noise_tolerance", Some("very_tolerant")), "guests_frequency", Some("often")),
                 "social_level", Some("very_social"))
        c == WithPrefs(b, "budget", Some(BudgetModel(Some(2000), Some(3000))))
    IN  WithTP(c, "personality", <<"night_owl">>)
RuleSubjects ==
    {Smokes, HasPets, Man, Woman, Aged20, Aged40, Aged0, Messy, VeryClean, FromTwoThousand,
     FromZero, LoudNightOwl, PlainNightOwl, Host, OftenGuests, BreaksAll, User(2)}

InitRules ==
    /\ engine = "ready"
    /\ weightsArg = None
    /\ weights = WEIGHTS
    /\ user \in RuleOwners
    /\ candidates \in {<<c>> : c \in RuleSubjects}
    /\ limit = 20
    /\ min_score = 0
    /\ pc = "check"
    /\ hashSeed = 0
    /\ previous = None
    /\ EnterLocals
    /\ job = None /\ now = 0
    /\ likes = <<>> /\ mutual_matches = <<>> /\ proc = <<>> /\ callers = <<>>

\* reason = self._check_deal_breakers(user, candidate); calc holds the result
CheckPair ==
    /\ pc = "check"
    /\ calc' = Some(CheckDealBreakers(user, candidates[1]))
    /\ pc' = "checked"
    /\ UNCHANGED <<engine, weightsArg, weights, user, candidates, limit, min_score, idx,
                   results, filtered_count, deal_breaker_reasons, scoredIdx, rejectedIdx,
                   error, ret, hashSeed, previous, jobVars, likeVars>>

NextRules == CheckPair

SpecRules == InitRules /\ [][NextRules]_vars

\* C21: the check returns an exclusion exactly when one of the eight rules
\* fires, with the reason of the first firing rule in the order noSmokers,
\* noPets, sameGenderOnly, minAge/maxAge, minCleanliness, maxBudget,
\* quietHoursRequired, noParties; none when no rule fires or the owner has no
\* deal-breakers.
OwnerRules(o) ==
    IF IsSome(o.tenant_profile) THEN Val(o.tenant_profile).deal_breakers ELSE None
TraitOf(c, field) ==
    IF IsSome(c.tenant_profile) /\ IsSome(Val(c.tenant_profile).flatmate_traits)
    THEN Val(Val(c.tenant_profile).flatmate_traits)[field] ELSE None
LifestyleOf(c, field) ==
    IF IsSome(Preferences(c)) /\ IsSome(Val(Preferences(c)).lifestyle_preferences)
    THEN Val(Val(Preferences(c)).lifestyle_preferences)[field] ELSE None
MinBudgetOf(c) ==
    IF IsSome(Preferences(c)) /\ IsSome(Val(Preferences(c)).budget)
    THEN Val(Val(Preferences(c)).budget).min ELSE None
LessCleanThan(a, b) ==
    \E i \in 1..Len(CleanlinessEnum) : \E j \in 1..Len(CleanlinessEnum) :
        CleanlinessEnum[i] = a /\ CleanlinessEnum[j] = b /\ i > j
RuleFires(n, o, c) ==
    LET db == Val(OwnerRules(o))
    IN  /\ IsSome(OwnerRules(o))
        /\ CASE n = 1 -> db.no_smokers /\ LifestyleOf(c, "smokes") = Some(TRUE)
             [] n = 2 -> db.no_pets /\ LifestyleOf(c, "has_pets") = Some(TRUE)
             [] n = 3 -> db.same_gender_only /\ IsSome(o.gender) /\ IsSome(c.gender)
                         /\ o.gender # c.gender
             [] n = 4 -> /\ IsSome(c.age)
                         /\ \/ IsSome(db.min_age) /\ Val(c.age) < Val(db.min_age)
                            \/ IsSome(db.max_age) /\ Val(c.age) > Val(db.max_age)
             [] n = 5 -> /\ IsSome(db.min_cleanliness)
                         /\ IsSome(TraitOf(c, "cleanliness"))
                         /\ LessCleanThan(Val(TraitOf(c, "cleanliness")), Val(db.min_cleanliness))
             [] n = 6 -> /\ IsSome(db.max_budget)
                         /\ IsSome(MinBudgetOf(c))
                         /\ Val(MinBudgetOf(c)) > Val(db.max_budget)
             [] n = 7 -> /\ db.quiet_hours_required
                         /\ "night_owl" \in SeqToSet(GetPersonality(c))
                         /\ TraitOf(c, "noise_tolerance") \in {Some("very_tolerant"), Some("tolerant")}
             [] n = 8 -> /\ db.no_parties
                         /\ TraitOf(c, "guests_frequency") = Some("often")
                         /\ TraitOf(c, "social_level") \in {Some("very_social"), Some("social")}
ReasonsOfRule(n) ==
    CASE n = 1 -> {"Candidate smokes (deal-breaker)"}
      [] n = 2 -> {"Candidate has pets (deal-breaker)"}
      [] n = 3 -> {"Gender mismatch (same gender required)"}
      [] n = 4 -> {"Candidate age below minimum", "Candidate age above maximum"}
      [] n = 5 -> {"Cleanliness below minimum"}
      [] n = 6 -> {"Budget incompatible"}
      [] n = 7 -> {"Candidate may not respect quiet hours"}
      [] n = 8 -> {"Candidate likely hosts parties"}
FiringRules(o, c) == {n \in 1..8 : RuleFires(n, o, c)}
CheckFollowsTheEightRules ==
    pc = "checked" =>
        LET fired == FiringRules(user, candidates[1])
            first == CHOOSE n \in fired : \A m \in fired : n <= m
        IN  IF fired = {} THEN Val(calc) = None
            ELSE IsSome(Val(calc)) /\ Val(Val(calc)) \in ReasonsOfRule(first)

\* ---------------------------------------------------------------------------
\* C22  The returned matches are in non-increasing order of compatibility
\*      score, and two matches of equal score stand in the order of their
\*      candidates in the candidate list.
MatchesSortedAndStable ==
    pc = "done" =>
        LET m == Val(ret).matches
        IN  \A i \in 1..Len(m) : \A j \in 1..Len(m) :
                i < j => \/ m[i].compatibility_score > m[j].compatibility_score
                         \/ /\ m[i].compatibility_score = m[j].compatibility_score
                            /\ m[i].pos < m[j].pos

\* two different candidates returned with the same score
TieBetweenTwoCandidates ==
    /\ pc = "done"
    /\ Len(Val(ret).matches) = 2
    /\ Val(ret).matches[1].compatibility_score = Val(ret).matches[2].compatibility_score
    /\ Val(ret).matches[1].user_id # Val(ret).matches[2].user_id

\* ---------------------------------------------------------------------------
\* C23  The stats describe all scored candidates that passed the filter and
\*      min_score, before the cut to limit: the average, highest and lowest
\*      score of that set and a count for each tier, the counts summing to the
\*      size of the set.
ScoresOfTheSet == {results[k].compatibility_score : k \in 1..Len(results)}
ExtremesAndAverageOfTheSet ==
    (pc = "done" /\ results # <<>>) =>
        LET s == Val(ret).stats
        IN  /\ s.highest_score \in ScoresOfTheSet
            /\ s.lowest_score \in ScoresOfTheSet
            /\ \A x \in ScoresOfTheSet : s.lowest_score <= x /\ x <= s.highest_score
            /\ s.average_score =
                   Round1(Frac(SumSeq([k \in 1..Len(results) |-> results[k].compatibility_score]),
                               10 * Len(results)))
TierCountsCoverTheSet ==
    pc = "done" =>
        LET s == Val(ret).stats
        IN  s.perfect_matches + s.great_matches + s.good_matches = Len(results)
StatsDescribeTheScoredSet == ExtremesAndAverageOfTheSet /\ TierCountsCoverTheSet

\* ---------------------------------------------------------------------------
\* C24  The lifestyle score is the weighted average (smoking 20, pets 15,
\*      cleanliness 25, social level 15, guest frequency 10, noise tolerance
\*      10, cooking frequency 5) over the sub-factors with data present only:
\*      smoking and pets always count, an ordinal sub-factor with a value
\*      absent on either side adds neither a score nor its weight.
OrdinalFactors ==
    <<[field |-> "cleanliness", enum |-> CleanlinessEnum, weight |-> 25],
      [field |-> "social_level", enum |-> SocialLevelEnum, weight |-> 15],
      [field |-> "guests_frequency", enum |-> GuestsFrequencyEnum, weight |-> 10],
      [field |-> "noise_tolerance", enum |-> NoiseToleranceEnum, weight |-> 10],
      [field |-> "cooking_frequency", enum |-> CookingFrequencyEnum, weight |-> 5]>>
FactorPresent(f, u, c) == IsSome(TraitOf(u, f.field)) /\ IsSome(TraitOf(c, f.field))
LifestyleOverPresentFactors(u, c) ==
    LET present == SelectSeq(OrdinalFactors, LAMBDA f : FactorPresent(f, u, c))
        scores == <<ScoreSmokingCompatibility(GetLifestylePrefs(u), GetLifestylePrefs(c)),
                    ScorePetsCompatibility(GetLifestylePrefs(u), GetLifestylePrefs(c))>>
                  \o [k \in 1..Len(present) |->
                        ScoreEnumDistance(TraitOf(u, present[k].field),
                                          TraitOf(c, present[k].field), present[k].enum)]
        ws == <<20, 15>> \o [k \in 1..Len(present) |-> present[k].weight]
    IN  WeightedAverage(scores, ws)
LifestyleAveragesPresentFactors ==
    pc = "scored" =>
        Val(calc).by_category.lifestyle.score
            = LifestyleOverPresentFactors(user, candidates[1])

\* ---------------------------------------------------------------------------
\* C25  The preferences score is the weighted average of exactly the
\*      sub-factors that produced a score, each with its own weight (age-range
\*      fit 30, gender preference 20, lease-duration closeness 25, shared
\*      languages 25); a sub-factor without data adds neither score nor
\*      weight; the score is 60 when no sub-factor produced a score.
AgeFit(u, c) ==
    LET p == Preferences(u)
        r == Val(Val(p).age_range)
        lo == r[1]
        hi == IF Len(r) > 1 THEN r[2] ELSE 100
        a == Val(c.age)
    IN  IF IsSome(p) /\ IsSome(Val(p).age_range) /\ Val(Val(p).age_range) # <<>> /\ TruthyNum(c.age)
        THEN <<[s |-> IF lo <= a /\ a <= hi THEN 100
                      ELSE Max2(20, 100 - 10 * (IF a < lo THEN lo - a ELSE a - hi)),
                w |-> 30]>>
        ELSE <<>>
GenderFit(u, c) ==
    LET p == Preferences(u)
    IN  IF IsSome(p) /\ IsSome(Val(p).gender) /\ IsSome(c.gender)
        THEN <<[s |-> IF Val(p).gender = c.gender THEN 100 ELSE 50, w |-> 20]>>
        ELSE <<>>
LeaseFit(u, c) ==
    LET d == Abs(Val(Preferences(u)).lease_duration_months
                 - Val(Preferences(c)).lease_duration_months)
    IN  IF IsSome(Preferences(u)) /\ IsSome(Preferences(c))
        THEN <<[s |-> IF d = 0 THEN 100 ELSE IF d <= 3 THEN 80 ELSE IF d <= 6 THEN 60 ELSE 40,
                w |-> 25]>>
        ELSE <<>>
LanguageFit(u, c) ==
    LET n == Len(GetSharedLanguages(u, c))
    IN  IF n > 0 THEN <<[s |-> Min2(100, 60 + 20 * n), w |-> 25]>>
        ELSE IF u.languages # <<>> /\ c.languages # <<>> THEN <<[s |-> 30, w |-> 25]>>
        ELSE <<>>
PreferencesOverScoredFactors(u, c) ==
    LET fs == AgeFit(u, c) \o GenderFit(u, c) \o LeaseFit(u, c) \o LanguageFit(u, c)
    IN  IF fs = <<>> THEN FInt(60)
        ELSE WeightedAverage([k \in 1..Len(fs) |-> fs[k].s], [k \in 1..Len(fs) |-> fs[k].w])
PreferencesAveragesScoredFactors ==
    pc = "scored" =>
        Val(calc).by_category.preferences.score
            = PreferencesOverScoredFactors(user, candidates[1])

\* ---------------------------------------------------------------------------
\* _score_personality applied to every pair of personality tag lists

\* the two tags of each axis, in the order the source tests them
AxisTags ==
    <<<<"introvert", "extrovert">>, <<"early_bird", "night_owl">>,
      <<"neat", "messy">>, <<"quiet", "talkative">>>>
AxisWeights == <<30, 35, 25, 10>>

\* tag lists a profile can hold: on each axis no tag, either tag, or both
TagChoices(n) ==
    {<<>>, <<AxisTags[n][1]>>, <<AxisTags[n][2]>>, <<AxisTags[n][1], AxisTags[n][2]>>}
TagLists ==
    {t1 \o t2 \o t3 \o t4 : t1 \in TagChoices(1), t2 \in TagChoices(2),
                            t3 \in TagChoices(3), t4 \in TagChoices(4)}
PersonalityProfiles ==
    {User(1)} \cup {WithTP(User(1), "personality", t) : t \in TagLists}

InitPersonality ==
    /\ engine = "ready"
    /\ weightsArg = None
    /\ weights = WEIGHTS
    /\ user \in PersonalityProfiles
    /\ candidates \in {<<c>> : c \in PersonalityProfiles}
    /\ limit = 20
    /\ min_score = 0
    /\ pc = "personality"
    /\ hashSeed = 0
    /\ previous = None
    /\ EnterLocals
    /\ job = None /\ now = 0
    /\ likes = <<>> /\ mutual_matches = <<>> /\ proc = <<>> /\ callers = <<>>

\* score, explanations = self._score_personality(user, candidate); calc holds
\* the returned pair and the values the call appended to its local scores
ScorePersonalityPair ==
    /\ pc = "personality"
    /\ \E r \in {ScorePersonality(user, candidates[1])} :
       \E axes \in {PersonalityAxes(SeqToSet(GetPersonality(user)),
                                    SeqToSet(GetPersonality(candidates[1])))} :
           calc' = Some([score |-> r.score, explanations |-> r.explanations,
                         scores |-> [n \in 1..4 |->
                                       IF axes[n] = <<>> THEN None ELSE Some(axes[n][1].s)]])
    /\ pc' = "personality_scored"
    /\ UNCHANGED <<engine, weightsArg, weights, user, candidates, limit, min_score, idx,
                   results, filtered_count, deal_breaker_reasons, scoredIdx, rejectedIdx,
                   error, ret, hashSeed, previous, jobVars, likeVars>>

NextPersonality == ScorePersonalityPair

SpecPersonality == InitPersonality /\ [][NextPersonality]_vars

\* C26: an axis is scored exactly when a side holds one of its tags; its
\* score is in 90..100 when both sides hold the same tag, in 35..55 when they
\* hold opposite tags and 70 otherwise; the category score is the average of
\* the scored axes weighted 30/35/25/10, and 60 when neither side has a tag.
TagsOf(p) == IF IsSome(p.tenant_profile) THEN SeqToSet(Val(p.tenant_profile).personality) ELSE {}
AxisHasTag(n, u, c) == \E k \in 1..2 : AxisTags[n][k] \in TagsOf(u) \cup TagsOf(c)
SameTag(n, u, c) == \E k \in 1..2 : AxisTags[n][k] \in TagsOf(u) \cap TagsOf(c)
OppositeTags(n, u, c) ==
    \E k \in 1..2 : AxisTags[n][k] \in TagsOf(u) /\ AxisTags[n][3 - k] \in TagsOf(c)
AverageOfScoredAxes(scores) ==
    LET scored == SelectSeq(<<1, 2, 3, 4>>, LAMBDA n : IsSome(scores[n]))
    IN  WeightedAverage([k \in 1..Len(scored) |-> Val(scores[scored[k]])],
                        [k \in 1..Len(scored) |-> AxisWeights[scored[k]]])
CategoryScoreAsDocumented ==
    LET u == user
        c == candidates[1]
        r == Val(calc)
    IN  /\ \A n \in 1..4 : IsSome(r.scores[n]) <=> AxisHasTag(n, u, c)
        /\ IF TagsOf(u) = {} /\ TagsOf(c) = {} THEN r.score = FInt(60)
           ELSE r.score = AverageOfScoredAxes(r.scores)
PersonalityAxesAsDocumented ==
    pc = "personality_scored" =>
        /\ CategoryScoreAsDocumented
        /\ \A n \in 1..4 : AxisHasTag(n, user, candidates[1]) =>
              LET s == Val(Val(calc).scores[n])
              IN  /\ SameTag(n, user, candidates[1]) => s \in 90..100
                  /\ OppositeTags(n, user, candidates[1]) => s \in 35..55
                  /\ ~SameTag(n, user, candidates[1]) /\ ~OppositeTags(n, user, candidates[1])
                        => s = 70

\* C26 as the code has it: a same-tag match scores 85..100 (both messy and both
\* talkative score 85) and takes precedence over an opposite pair of tags.
SameTagFrom85 ==
    pc = "personality_scored" =>
        /\ CategoryScoreAsDocumented
        /\ \A n \in 1..4 : AxisHasTag(n, user, candidates[1]) =>
              LET s == Val(Val(calc).scores[n])
              IN  IF SameTag(n, user, candidates[1]) THEN s \in 85..100
                  ELSE IF OppositeTags(n, user, candidates[1]) THEN s \in 35..55
                  ELSE s = 70
\* both sides messy and talkative, the seeker also an early bird
BothMessyAndTalkative ==
    /\ pc = "personality_scored"
    /\ {"messy", "talkative"} \subseteq TagsOf(user) \cap TagsOf(candidates[1])
    /\ "early_bird" \in TagsOf(user)
    /\ Val(calc).scores[3] = Some(85)
    /\ Val(calc).scores[2] = Some(70)

\* ---------------------------------------------------------------------------
\* like_user, unlike_user and unmatch called one at a time.  likes and
\* mutual_matches are the two collections in insertion order; proc is the
\* number of calls made and the last call with its answer.

MaxCalls == 5
UserIds == 1..3
\* the score the endpoint passes on: none, or the rounded score in tenths
LikeScores == {None, Some(672)}
LikeStatusEnum == {"pending", "mutual", "declined"}

Call(op, by, to, result, was_mutual) ==
    [calls |-> proc.calls + 1, op |-> op, by |-> by, to |-> to, result |-> result,
     was_mutual |-> was_mutual]

InitLikeOps ==
    /\ MatchingIdle
    /\ job = None /\ now = 0
    /\ callers = <<>>
    /\ likes = <<>>
    /\ mutual_matches = <<>>
    /\ proc = [calls |-> 0, op |-> "none", by |-> 0, to |-> 0, result |-> "", was_mutual |-> FALSE]

\* MutualMatch.find({"user1Id": min, "user2Id": max}): the positions of the
\* documents of the pair
MutualMatchesOf(a, b) ==
    {k \in DOMAIN mutual_matches : /\ mutual_matches[k].user_1_id = Min2(a, b)
                                   /\ mutual_matches[k].user_2_id = Max2(a, b)}

\* document.delete()
DeleteAt(docs, k) == SubSeq(docs, 1, k - 1) \o SubSeq(docs, k + 1, Len(docs))

\* POST /{user_id}: the endpoint and LikesService.like_user.  Every user id
\* names a user; the score is the one the endpoint computed.
LikeUser(a, b, score) ==
    /\ proc.calls < MaxCalls
    /\ LET existing_like == FindLike(a, b, LikeStatusEnum)
           reciprocal_like == FindLike(b, a, {"pending"})
           is_mutual == IsSome(reciprocal_like)
           inserted == Append(likes, Like(a, b, IF is_mutual THEN "mutual" ELSE "pending", score))
       IN  IF a = b
           THEN /\ proc' = Call("like", a, b, "http_400", FALSE)
                /\ UNCHANGED <<likes, mutual_matches>>
           ELSE IF IsSome(existing_like)
           THEN /\ proc' = Call("like", a, b, "already_liked", FALSE)
                /\ UNCHANGED <<likes, mutual_matches>>
           ELSE IF ~is_mutual
           THEN /\ likes' = inserted
                /\ proc' = Call("like", a, b, "liked", FALSE)
                /\ UNCHANGED mutual_matches
           ELSE /\ likes' = [inserted EXCEPT ![Val(reciprocal_like)].status = "mutual"]
                /\ mutual_matches' = Append(mutual_matches,
                       [user_1_id |-> Min2(a, b), user_2_id |-> Max2(a, b),
                        status |-> "active",
                        compatibility_score |->
                            ScoreOr(score, likes[Val(reciprocal_like)].compatibility_score)])
                /\ proc' = Call("like", a, b, "liked", TRUE)
    /\ UNCHANGED <<callers, matchingVars, jobVars>>

\* DELETE /{user_id}: the endpoint and LikesService.unlike_user.  find_one
\* returns any one of the pair's MutualMatch documents.
UnlikeUser(a, b) ==
    /\ proc.calls < MaxCalls
    /\ LET like == FindLike(a, b, LikeStatusEnum)
       IN  IF like = None
           THEN /\ proc' = Call("unlike", a, b, "http_404", FALSE)
                /\ UNCHANGED <<likes, mutual_matches>>
           ELSE LET was_mutual == likes[Val(like)].status = "mutual"
                    deleted == DeleteAt(likes, Val(like))
                    reciprocal == {k \in DOMAIN deleted : /\ deleted[k].liker_id = b
                                                          /\ deleted[k].liked_user_id = a}
                    reciprocal_like == IF reciprocal = {} THEN None
                                       ELSE Some(CHOOSE k \in reciprocal : \A m \in reciprocal : k <= m)
                IN  /\ proc' = Call("unlike", a, b, "unliked", was_mutual)
                    /\ likes' = IF was_mutual /\ IsSome(reciprocal_like)
                                THEN [deleted EXCEPT ![Val(reciprocal_like)].status = "pending"]
                                ELSE deleted
                    /\ IF was_mutual /\ MutualMatchesOf(a, b) # {}
                       THEN \E k \in MutualMatchesOf(a, b) :
                                mutual_matches' = [mutual_matches EXCEPT ![k].status = "unmatched"]
                       ELSE UNCHANGED mutual_matches
    /\ UNCHANGED <<callers, matchingVars, jobVars>>

\* POST /{user_id}/unmatch: the endpoint and LikesService.unmatch
Unmatch(a, b) ==
    /\ proc.calls < MaxCalls
    /\ IF MutualMatchesOf(a, b) = {}
       THEN /\ proc' = Call("unmatch", a, b, "http_404", FALSE)
            /\ UNCHANGED <<likes, mutual_matches>>
       ELSE \E k \in MutualMatchesOf(a, b) :
                IF mutual_matches[k].status # "active"
                THEN /\ proc' = Call("unmatch", a, b, "http_404", FALSE)
                     /\ UNCHANGED <<likes, mutual_matches>>
                ELSE /\ mutual_matches' = [mutual_matches EXCEPT ![k].status = "unmatched"]
                     /\ likes' = [j \in DOMAIN likes |->
                                     IF <<likes[j].liker_id, likes[j].liked_user_id>>
                                            \in {<<a, b>>, <<b, a>>}
                                     THEN [likes[j] EXCEPT !.status = "pending"]
                                     ELSE likes[j]]
                     /\ proc' = Call("unmatch", a, b, "unmatched", TRUE)
    /\ UNCHANGED <<callers, matchingVars, jobVars>>

NextLikeOps ==
    \/ \E a \in UserIds : \E b \in UserIds : \E score \in LikeScores : LikeUser(a, b, score)
    \/ \E a \in UserIds : \E b \in UserIds : UnlikeUser(a, b)
    \/ \E a \in UserIds : \E b \in UserIds : Unmatch(a, b)

SpecLikeOps == InitLikeOps /\ [][NextLikeOps]_vars

\* C27: after any sequence of like_user, unlike_user and unmatch calls no two
\* MutualMatch records have the same (user1Id, user2Id) pair, so the record
\* _find_mutual_match finds is the only record of the pair.
OneMutualMatchPerPair ==
    \A a \in UserIds : \A b \in UserIds : Cardinality(MutualMatchesOf(a, b)) <= 1

\* C28: with the calls made one at a time, a pair of users has an active
\* MutualMatch exactly when each has a Like of the other and both Likes are
\* mutual; after unlike_user removed a mutual like the pair has no active
\* MutualMatch and the other user's like is pending.
LikesOf(a, b) == {k \in DOMAIN likes : likes[k].liker_id = a /\ likes[k].liked_user_id = b}
BothLikesMutual(a, b) ==
    /\ LikesOf(a, b) # {} /\ LikesOf(b, a) # {}
    /\ \A k \in LikesOf(a, b) \cup LikesOf(b, a) : likes[k].status = "mutual"
ActiveMatchOf(a, b) == \E k \in MutualMatchesOf(a, b) : mutual_matches[k].status = "active"
RemovedAMutualLike == proc.op = "unlike" /\ proc.result = "unliked" /\ proc.was_mutual
ActiveMatchIffBothLikesMutual ==
    /\ \A a \in UserIds : \A b \in UserIds \ {a} : ActiveMatchOf(a, b) <=> BothLikesMutual(a, b)
    /\ RemovedAMutualLike =>
          /\ ~ActiveMatchOf(proc.by, proc.to)
          /\ \A k \in LikesOf(proc.to, proc.by) : likes[k].status = "pending"

\* ---------------------------------------------------------------------------
\* A scrape job of the API: create_job has stored the document and queued
\* run_scrape_job; cancel_job may be called once at any moment.  job is the
\* stored document, proc the background task, the cancellation flag of the
\* job and the cancel request.  Each action runs from one await to the next.

MaxListings == 3
SearchPages == 5
Sites == {"olx", "otodom", "gumtree"}

\* create_job: the document, the flag and the queued task
InitScrape ==
    /\ MatchingIdle
    /\ now = 0
    /\ likes = <<>> /\ mutual_matches = <<>> /\ callers = <<>>
    /\ job = Some([status |-> "pending", error_message |-> None])
    /\ \E site \in Sites :
         proc = [task |-> "queued", site |-> site, flag |-> Some(FALSE), cancel |-> "none",
                 page |-> 1, found |-> 0, i |-> 0, quality |-> 0, final_status |-> "",
                 phase_raised |-> FALSE, error |-> None, written_after_cancel |-> {}]

ScrapeFrame == UNCHANGED <<matchingVars, now, likes, mutual_matches, callers>>

\* _job_cancellation_flags.get(job_id)
CancellationFlag == proc.flag = Some(TRUE)

\* lines 1197-1214: the task starts and writes status running.  The statuses
\* the task writes once cancel_job has succeeded are recorded.
MarkRunning ==
    /\ proc.task = "queued"
    /\ \E p \in {[proc EXCEPT !.task = "select_site"]} :
           /\ proc' = [p EXCEPT !.written_after_cancel =
                          IF proc.cancel = "ok" THEN @ \cup {"running"} ELSE @]
           /\ job' = Some([Val(job) EXCEPT !.status = "running"])
    /\ ScrapeFrame

\* lines 1216-1243: the client is opened and the site selected; an unsupported
\* site raises ValueError
SelectSite ==
    /\ proc.task = "select_site"
    /\ proc' = IF proc.site \in {"olx", "otodom"}
               THEN [proc EXCEPT !.task = "collecting"]
               ELSE [proc EXCEPT !.task = "except",
                                 !.error = Some("Unsupported site: " \o proc.site)]
    /\ UNCHANGED job
    /\ ScrapeFrame

\* lines 1245-1298: one turn of the search-page loop; the page adds a listing
\* URL, or it has none or its fetch fails (caught) and the loop ends
CollectPage ==
    /\ proc.task = "collecting"
    /\ IF CancellationFlag \/ proc.found >= MaxListings \/ proc.page > SearchPages
       THEN proc' = [proc EXCEPT !.task = "extracting"]
       ELSE \/ proc' = [proc EXCEPT !.page = @ + 1, !.found = @ + 1]
            \/ proc' = [proc EXCEPT !.task = "extracting"]
    /\ UNCHANGED job
    /\ ScrapeFrame

\* lines 1311-1360: one turn of the extraction loop; the listing is kept or
\* rejected (its own errors are caught); the progress update after every
\* third listing is outside the try of the loop and a database error there
\* escapes the phase
ExtractListing ==
    /\ proc.task = "extracting"
    /\ IF CancellationFlag \/ proc.i >= proc.found
       THEN proc' = [proc EXCEPT !.task = "saving", !.i = 0]
       ELSE \/ \E kept \in {0, 1} :
                  proc' = [proc EXCEPT !.i = @ + 1, !.quality = @ + kept]
            \/ /\ (proc.i + 1) % 3 = 0
               /\ proc' = [proc EXCEPT !.task = "except", !.phase_raised = TRUE,
                                       !.error = Some("database error")]
    /\ UNCHANGED job
    /\ ScrapeFrame

\* lines 1372-1461: one turn of the saving loop (errors of a listing are
\* caught); line 1464 after the loop: final_status is chosen from the flag and
\* the final update is sent
SaveListing ==
    /\ proc.task = "saving"
    /\ IF CancellationFlag \/ proc.i >= proc.quality
       THEN proc' = [proc EXCEPT !.task = "completing",
                                 !.final_status = IF CancellationFlag THEN "cancelled"
                                                  ELSE "completed"]
       ELSE proc' = [proc EXCEPT !.i = @ + 1]
    /\ UNCHANGED job
    /\ ScrapeFrame

\* lines 1465-1484: the final update takes effect; the job_log after it reads
\* stats["detail_fetched"], a key stats never has, and raises KeyError
ApplyFinalUpdate ==
    /\ proc.task = "completing"
    /\ \E p \in {[proc EXCEPT !.task = "except", !.error = Some("'detail_fetched'")]} :
           /\ proc' = [p EXCEPT !.written_after_cancel =
                          IF proc.cancel = "ok" THEN @ \cup {proc.final_status} ELSE @]
           /\ job' = Some([Val(job) EXCEPT !.status = proc.final_status])
    /\ ScrapeFrame

\* lines 1486-1502: except Exception writes status failed
HandleException ==
    /\ proc.task = "except"
    /\ \E p \in {[proc EXCEPT !.task = "finally"]} :
           /\ proc' = [p EXCEPT !.written_after_cancel =
                          IF proc.cancel = "ok" THEN @ \cup {"failed"} ELSE @]
           /\ job' = Some([status |-> "failed", error_message |-> proc.error])
    /\ ScrapeFrame

\* lines 1503-1506: finally: the flag is removed
Finally ==
    /\ proc.task = "finally"
    /\ proc' = [proc EXCEPT !.task = "finished", !.flag = None]
    /\ UNCHANGED job
    /\ ScrapeFrame

\* cancel_job lines 180-185: the flag is set and the update sent
CancelSetFlag ==
    /\ proc.cancel = "none"
    /\ proc' = [proc EXCEPT !.cancel = "flagged", !.flag = Some(TRUE)]
    /\ UNCHANGED job
    /\ ScrapeFrame

\* cancel_job lines 187-202: the update takes effect on a pending or running
\* job; with no document modified the request fails with 400
CancelUpdate ==
    /\ proc.cancel = "flagged"
    /\ IF Val(job).status \in {"running", "pending"}
       THEN /\ job' = Some([status |-> "cancelled", error_message |-> Some("Cancelled by user")])
            /\ proc' = [proc EXCEPT !.cancel = "ok"]
       ELSE /\ proc' = [proc EXCEPT !.cancel = "http_400"]
            /\ UNCHANGED job
    /\ ScrapeFrame

NextScrape ==
    \/ MarkRunning
    \/ SelectSite
    \/ CollectPage
    \/ ExtractListing
    \/ SaveListing
    \/ ApplyFinalUpdate
    \/ HandleException
    \/ Finally
    \/ CancelSetFlag
    \/ CancelUpdate

SpecScrape == InitScrape /\ [][NextScrape]_vars

\* C29: once cancel_job has succeeded the task never writes status running or
\* completed, and when the task has finished the stored status is cancelled.
CancelledJobStaysCancelled ==
    proc.cancel = "ok" =>
        /\ proc.written_after_cancel \cap {"running", "completed"} = {}
        /\ proc.task = "finished" => Val(job).status = "cancelled"

\* C30: a job for olx or otodom that is never cancelled and whose collecting,
\* extraction and saving phases do not raise is never given status failed and
\* has status completed when the task has finished.
UncancelledJobCompletes ==
    (proc.site \in {"olx", "otodom"} /\ proc.cancel = "none" /\ ~proc.phase_raised) =>
        /\ Val(job).status # "failed"
        /\ proc.task = "finished" => Val(job).status = "completed"

====
